---- MODULE Spec2Model ----
(***************************************************************************)
(* A model of novu_framework: the process-global WorkflowRegistry, the     *)
(* Workflow objects it maps to, Workflow.trigger with its per-trigger      *)
(* StepHandler, and StepHandler._execute_step with its skip predicate and  *)
(* its resolver fallback chain.                                            *)
(*                                                                         *)
(* Workflow objects live in a heap (objects), so that "the same workflow   *)
(* object" is the same heap index.  A handler is arbitrary user code: what *)
(* it does during a trigger (which step it calls next, whether it returns  *)
(* or raises) is chosen nondeterministically, one step call at a time.     *)
(* Callables (resolvers, skip predicates) are modelled by what a call of   *)
(* each argument form does: return, raise TypeError, raise ValueError.     *)
(***************************************************************************)
EXTENDS Integers, Sequences, FiniteSets, TLC

VARIABLES
    objects,      \* heap of Workflow objects, in construction order
    registry,     \* workflow_registry.workflows: workflow id -> heap index
    last,         \* the last call of a registry method: its argument, what it raised or returned
    triggers,     \* the Workflow.trigger coroutines started so far, in start order
    stepCalls,    \* number of _execute_step calls made so far, over all triggers
    served,       \* workflow_map of the app set up by serve(), once it is called
    response,     \* the answer to the last HTTP request
    decorators    \* the decorators workflow(...) has returned: the variables of their closures

vars == <<objects, registry, last, triggers, stepCalls, served, response, decorators>>

\* the state of the HTTP adapter
http == <<served, response>>

---------------------------------------------------------------------------
(* Bounds of the exploration *)

\* Workflow objects constructed in one behaviour
MaxWorkflows == 2
\* Workflow.trigger calls started in one behaviour
MaxTriggers == 1
\* _execute_step calls made in one behaviour, over all triggers
MaxSteps == 1
\* Workflow objects of AppSpec, and its trigger calls and step calls together
AppWorkflows == 2
AppCalls == 2
\* _execute_step calls made by the one trigger of TriggerSpec
TrigSteps == 2
\* interleaved triggers of ConcurrentSpec, and the step calls they make in all
ConcTriggers == 2
ConcSteps == 2
\* _execute_step calls made by the one trigger of StepSpec
ProbeSteps == 1
\* HttpSpec: workflows in the served list, and triggers and step calls together
HttpServed == 2
HttpCalls == 2
\* RaceSpec: triggers run by threads, and _execute_step calls they make
RaceTriggers == 2
RaceSteps == 2
\* _execute_step calls made by the one trigger of AsyncSpec
AsyncSteps == 2
\* DecoratorSpec: decorators made, and Workflow objects they construct
MaxDecorators == 2
DecoratorWorkflows == 2

---------------------------------------------------------------------------
(* Input domains *)

WorkflowIds == {"w1", "w2"}
Handlers == {"h1", "h2", "h3", "h4"}
StepIds == {"s1", "s2"}
PayloadKeys == {"name", "extra"}

\* A payload dict, by the keys it holds
Payloads == SUBSET PayloadKeys

\* Optional[Type[BaseModel]]: no schema, or a model whose field "name" is required
NoSchema == [kind |-> "none", required |-> {}, fields |-> {}]
NameSchema == [kind |-> "model", required |-> {"name"}, fields |-> {"name"}]
Schemas == {NoSchema, NameSchema}

\* (to, metadata) of a trigger call
TriggerArgs == {[to |-> "u1", metadata |-> "None"], [to |-> "u2", metadata |-> "m1"]}

\* what a handler returns when it completes
HandlerReturns == {"None", "processed"}

\* the step methods of StepHandler and the step class each passes on
StepMethods == {"in_app", "email", "sms", "push"}

\* the three argument forms _execute_step calls a resolver with
Forms == {"controls", "noargs", "payload"}

\* what one call of a callable does
CallOutcomes == {"return", "TypeError", "ValueError"}

\* the controls option: not given, an empty dict, a non-empty dict
Controls == {"absent", "empty", "nonempty"}

\* the skip option: not given, a plain bool, or a predicate that returns a
\* truthy value, returns a falsy value, or raises; fn_payload is a predicate
\* with one required parameter, which returns a truthy value for the payload
Skips ==
    {"absent", "True", "False", "fn_true", "fn_false", "fn_TypeError", "fn_ValueError",
     "fn_payload"}

\* a resolver: a dict, a callable (by the outcome of each call form), or
\* something that is neither (passed through as the result)
Resolver(kind, onControls, onNoargs, onPayload) ==
    [kind |-> kind,
     on |-> [controls |-> onControls, noargs |-> onNoargs, payload |-> onPayload]]
CallableResolvers ==
    {Resolver("callable", a, b, c) : a \in CallOutcomes, b \in CallOutcomes, c \in CallOutcomes}
DictResolver == Resolver("dict", "return", "return", "return")
OtherResolver == Resolver("other", "return", "return", "return")
Resolvers == CallableResolvers \cup {DictResolver, OtherResolver}

\* every step call a handler can make
AllStepCalls == [method : StepMethods, step_id : StepIds, resolver : Resolvers,
                 skip : Skips, controls : Controls]

---------------------------------------------------------------------------
(* Workflow and WorkflowRegistry *)

\* Optional[...] values that are absent
None == 0

\* {}: a dict with no keys
EmptyDict == [k \in {} |-> None]

\* the two adapters
Adapters == {"fastapi", "flask"}

\* GetActionEnum
GetActions == {"health-check", "discover", "code"}

\* the action query parameter: not given, a member of the enum, or another string
ActionParams == {"absent", "invalid-action"} \cup GetActions

\* the workflow_id query parameter: not given ("absent"), empty, or an id
WorkflowIdParams == {"absent", ""} \cup WorkflowIds

\* the body of an execute request: a JSON object TriggerPayload accepts, the
\* empty object, an object without "to", or text that is not JSON
Bodies == {"valid", "empty", "invalid", "malformed"}

\* what the handler of the workflow does when it is run with the payload of
\* an execute request: it returns, or it raises ValueError("Test error")
HandlerOutcomes == {"completes", "raises"}

\* a GET request and an execute request
GetRequest(action, workflow_id) ==
    [method |-> "GET", action |-> action, workflow_id |-> workflow_id, body |-> "none",
     handler |-> "none"]
ExecuteRequest(workflow_id, body, handler) ==
    [method |-> "POST", action |-> "execute", workflow_id |-> workflow_id, body |-> body,
     handler |-> handler]
NoRequest ==
    [method |-> "none", action |-> "none", workflow_id |-> "absent", body |-> "none",
     handler |-> "none"]

\* a response with no body members set
Response(adapter, request, status, media, keys) ==
    [adapter |-> adapter, request |-> request, status |-> status,
     media |-> media, keys |-> keys,
     detail |-> "", health |-> "", workflows |-> 0, steps |-> 0,
     list |-> <<>>, code |-> [kind |-> "none", of |-> ""]]

\* no HTTP request answered yet, or a registry method called since
NoResponse == Response("none", NoRequest, 0, "none", {})

\* serve() not called yet
NotServed == [up |-> FALSE, order |-> <<>>, map |-> EmptyDict]

\* no registry call made yet, or an HTTP request answered since
NoCall == [op |-> "none", id |-> "", raised |-> "none", value |-> None]

\* Workflow.__init__: name defaults to the workflow id, steps starts empty
Workflow(workflow_id, handler, payload_schema, name) ==
    [workflow_id |-> workflow_id,
     handler |-> handler,
     payload_schema |-> payload_schema,
     name |-> IF name = "None" THEN workflow_id ELSE name,
     steps |-> <<>>]

\* WorkflowRegistry.register: the exception it raises, "none" when it returns
register_raises(reg, workflow) ==
    IF workflow.workflow_id \in DOMAIN reg THEN "ValueError" ELSE "none"

\* register without the duplicate check: a later registration replaces the earlier one
register_overwrites(reg, o, workflow) ==
    [id \in DOMAIN reg \cup {workflow.workflow_id} |->
        IF id = workflow.workflow_id THEN o ELSE reg[id]]

\* WorkflowRegistry.register: the workflows dict afterwards, for the object at index o
register(reg, o, workflow) ==
    IF workflow.workflow_id \in DOMAIN reg
    THEN reg
    ELSE [id \in DOMAIN reg \cup {workflow.workflow_id} |->
             IF id = workflow.workflow_id THEN o ELSE reg[id]]

\* WorkflowRegistry.get: dict.get, None for an unknown id
get(reg, workflow_id) ==
    IF workflow_id \in DOMAIN reg THEN reg[workflow_id] ELSE None

\* clear that removes one entry only (popitem in place of clear)
clear_one(reg) ==
    IF DOMAIN reg = {} THEN reg
    ELSE LET gone == CHOOSE id \in DOMAIN reg : TRUE
         IN [id \in DOMAIN reg \ {gone} |-> reg[id]]

\* WorkflowRegistry.clear
clear(reg) == EmptyDict

\* Workflow(...) constructed directly, not registered; at most maxWorkflows
\* objects are constructed
NewWorkflow(workflow_id, handler, payload_schema, name, maxWorkflows) ==
    /\ Len(objects) < maxWorkflows
    /\ objects' = Append(objects, Workflow(workflow_id, handler, payload_schema, name))
    /\ UNCHANGED <<registry, last, triggers, stepCalls>>
    /\ UNCHANGED http
    /\ UNCHANGED decorators

\* workflow_registry.register(obj) on an existing Workflow object
Register(o) ==
    /\ o \in 1..Len(objects)
    /\ registry' = register(registry, o, objects[o])
    /\ last' = [op |-> "register", id |-> objects[o].workflow_id,
                raised |-> register_raises(registry, objects[o]), value |-> None]
    /\ UNCHANGED <<objects, triggers, stepCalls>>
    /\ served' = served /\ response' = NoResponse
    /\ UNCHANGED decorators

\* @workflow(workflow_id, payload_schema, name) applied to a handler function:
\* constructs the Workflow and registers it; when register raises, the decorator
\* raises and the new object is dropped with the failed definition
Decorate(workflow_id, handler, payload_schema, name, maxWorkflows) ==
    LET w == Workflow(workflow_id, handler, payload_schema, name)
        o == Len(objects) + 1
        exc == register_raises(registry, w)
    IN /\ exc = "none" => Len(objects) < maxWorkflows
       /\ objects' = IF exc = "none" THEN Append(objects, w) ELSE objects
       /\ registry' = register(registry, o, w)
       /\ last' = [op |-> "register", id |-> workflow_id, raised |-> exc, value |-> None]
       /\ UNCHANGED <<triggers, stepCalls>>
       /\ served' = served /\ response' = NoResponse
       /\ UNCHANGED decorators

\* workflow_registry.get(workflow_id)
Get(workflow_id) ==
    /\ last' = [op |-> "get", id |-> workflow_id, raised |-> "none",
                value |-> get(registry, workflow_id)]
    /\ UNCHANGED <<objects, registry, triggers, stepCalls>>
    /\ served' = served /\ response' = NoResponse
    /\ UNCHANGED decorators

\* workflow_registry.clear()
Clear ==
    /\ registry' = clear(registry)
    /\ last' = [op |-> "clear", id |-> "", raised |-> "none", value |-> None]
    /\ UNCHANGED <<objects, triggers, stepCalls>>
    /\ served' = served /\ response' = NoResponse
    /\ UNCHANGED decorators

---------------------------------------------------------------------------
(* The decorator workflow(workflow_id, payload_schema, name): the call gives *)
(* a decorator, a closure over the three arguments, that is then applied to *)
(* handler functions                                                        *)

\* a second BaseModel subclass, whose field "extra" is required
ExtraSchema == [kind |-> "model", required |-> {"extra"}, fields |-> {"extra"}]

\* param.annotation: a BaseModel subclass, Dict[str, Any], or no annotation
Annotations == {"NameSchema", "ExtraSchema", "Dict", "empty"}

\* inspect.isclass(param.annotation) and issubclass(param.annotation, BaseModel)
IsBaseModelClass(annotation) == annotation \in {"NameSchema", "ExtraSchema"}

\* the class an annotation names
SchemaOf(annotation) == IF annotation = "NameSchema" THEN NameSchema ELSE ExtraSchema

\* the first index of a non-empty set of parameter indices, in signature order
FirstOf(S) == CHOOSE i \in S : \A j \in S : i <= j

\* the two loops of decorator over inspect.signature(func).parameters: the
\* parameter named payload when it is annotated with a BaseModel subclass,
\* else the first parameter annotated with one, else None
auto_payload_schema(parameters) ==
    LET named == {i \in 1..Len(parameters) :
                     /\ parameters[i].name = "payload"
                     /\ IsBaseModelClass(parameters[i].annotation)}
        any == {i \in 1..Len(parameters) : IsBaseModelClass(parameters[i].annotation)}
    IN IF named # {} THEN SchemaOf(parameters[FirstOf(named)].annotation)
       ELSE IF any # {} THEN SchemaOf(parameters[FirstOf(any)].annotation)
       ELSE NoSchema

\* workflow(workflow_id, payload_schema, name) is called and the decorator it
\* returns is kept: payload_schema and name are the variables of the closure,
\* passed records the payload_schema argument of the call; at most
\* maxDecorators decorators are made
MakeDecorator(workflow_id, payload_schema, name, maxDecorators) ==
    /\ Len(decorators) < maxDecorators
    /\ decorators' = Append(decorators,
          [workflow_id |-> workflow_id, payload_schema |-> payload_schema,
           name |-> name, passed |-> payload_schema])
    /\ UNCHANGED <<objects, registry, last, triggers, stepCalls, served, response>>

\* decorator(func) of the decorator at index d: when the closure's
\* payload_schema is None it is assigned from the signature of func (it is
\* nonlocal, so the assignment stays in the closure), then the Workflow is
\* constructed and registered; when register raises, the decorator raises and
\* the new object is dropped
ApplyDecorator(d, func, maxWorkflows) ==
    LET c == decorators[d]
        schema == IF c.payload_schema = NoSchema
                  THEN auto_payload_schema(func.parameters)
                  ELSE c.payload_schema
        w == Workflow(c.workflow_id, func.name, schema, c.name)
        o == Len(objects) + 1
        exc == register_raises(registry, w)
    IN /\ d \in 1..Len(decorators)
       /\ exc = "none" => Len(objects) < maxWorkflows
       /\ decorators' = [decorators EXCEPT ![d].payload_schema = schema]
       /\ objects' = IF exc = "none" THEN Append(objects, w) ELSE objects
       /\ registry' = register(registry, o, w)
       /\ last' = [op |-> "register", id |-> c.workflow_id, raised |-> exc, value |-> None]
       /\ UNCHANGED <<triggers, stepCalls>>
       /\ served' = served /\ response' = NoResponse

---------------------------------------------------------------------------
(* StepHandler *)

\* a handler that starts from the step_results of the trigger started last
StepHandler_shared(payload, workflow) ==
    [payload |-> payload,
     step_results |-> IF triggers = <<>> THEN EmptyDict
                      ELSE triggers[Len(triggers)].step_handler.step_results,
     workflow |-> workflow,
     executed_steps |-> <<>>]

\* StepHandler.__init__
StepHandler(payload, workflow) ==
    [payload |-> payload,
     step_results |-> EmptyDict,
     workflow |-> workflow,
     executed_steps |-> <<>>]

\* step_class.__name__ of the class each step method passes to _execute_step
StepClassName(method) ==
    CASE method = "in_app" -> "InAppStep"
      [] method = "email" -> "EmailStep"
      [] method = "sms" -> "SmsStep"
      [] method = "push" -> "PushStep"

\* bool(skip) and callable(skip) for the values of the skip option
Truthy(skip) == skip \notin {"absent", "False"}
Callable(skip) ==
    skip \in {"fn_true", "fn_false", "fn_TypeError", "fn_ValueError", "fn_payload"}

\* skip(): what the predicate raises ("none" when it returns) and whether the
\* value it returns is truthy
SkipRaises(skip) ==
    CASE skip = "fn_TypeError" -> "TypeError"
      [] skip = "fn_payload" -> "TypeError"
      [] skip = "fn_ValueError" -> "ValueError"
      [] OTHER -> "none"
\* every predicate that returns says skip
SkipReturnsTruthy_any(skip) == SkipRaises(skip) = "none"
SkipReturnsTruthy(skip) == skip = "fn_true"

\* the value a resolver call of the given form returns
ReturnValue(form) ==
    CASE form = "controls" -> "ret_controls"
      [] form = "noargs" -> "ret_noargs"
      [] form = "payload" -> "ret_payload"

\* a call of the resolver whose every exception is taken for a TypeError
Attempt_masked(resolver, form, tried) ==
    [tried |-> Append(tried, form),
     raised |-> IF resolver.on[form] = "return" THEN "none" ELSE "TypeError",
     result |-> IF resolver.on[form] = "return" THEN ReturnValue(form) ELSE "none"]

\* one call of the resolver: what it raises and what it returns
Attempt(resolver, form, tried) ==
    [tried |-> Append(tried, form),
     raised |-> IF resolver.on[form] = "return" THEN "none" ELSE resolver.on[form],
     result |-> IF resolver.on[form] = "return" THEN ReturnValue(form) ELSE "none"]

\* a test that takes an empty dict of controls for controls
ControlsGiven_empty(controls) == controls # "absent"

\* "if controls:" with controls = options.get("controls", {})
ControlsGiven(controls) == controls = "nonempty"

\* a resolution that, with no controls given, falls back to a call with the
\* empty controls in place of the payload
resolve_empty_controls(resolver, controls) ==
    IF resolver.kind = "dict"
    THEN [tried |-> <<>>, raised |-> "none", result |-> "dict"]
    ELSE IF resolver.kind # "callable"
    THEN [tried |-> <<>>, raised |-> "none", result |-> "other"]
    ELSE LET a1 == Attempt(resolver, IF ControlsGiven(controls) THEN "controls" ELSE "noargs", <<>>)
             a2 == Attempt(resolver, IF ControlsGiven(controls) THEN "noargs" ELSE "controls",
                           a1.tried)
             a3 == Attempt(resolver, "payload", a2.tried)
         IN IF a1.raised # "TypeError" THEN a1
            ELSE IF a2.raised # "TypeError" \/ ~ControlsGiven(controls) THEN a2
            ELSE a3

\* _execute_step, "Execute resolver": the calls made (tried), the exception
\* that leaves the block and the result
resolve(resolver, controls) ==
    IF resolver.kind = "dict"
    THEN [tried |-> <<>>, raised |-> "none", result |-> "dict"]
    ELSE IF resolver.kind # "callable"
    THEN [tried |-> <<>>, raised |-> "none", result |-> "other"]
    ELSE IF ControlsGiven(controls)
    THEN LET a1 == Attempt(resolver, "controls", <<>>)
             a2 == Attempt(resolver, "noargs", a1.tried)
             a3 == Attempt(resolver, "payload", a2.tried)
         IN IF a1.raised # "TypeError" THEN a1
            ELSE IF a2.raised # "TypeError" THEN a2
            ELSE a3
    ELSE LET a1 == Attempt(resolver, "noargs", <<>>)
             a2 == Attempt(resolver, "payload", a1.tried)
         IN IF a1.raised # "TypeError" THEN a1 ELSE a2

\* an item assignment that stores nothing
SetItem_lost(d, k, v) == d

\* an assignment that keeps the value a key already has
SetItem_first(d, k, v) == [x \in DOMAIN d \cup {k} |-> IF x \in DOMAIN d THEN d[x] ELSE v]

\* dict item assignment d[k] = v
SetItem(d, k, v) == [x \in DOMAIN d \cup {k} |-> IF x = k THEN v ELSE d[x]]

\* [step.get("step_id") for step in workflow.steps]
StepIdsOf(steps) == {steps[i].step_id : i \in 1..Len(steps)}

\* an update that appends without looking for the id
update_steps_always(steps, workflow, step_id, method) ==
    IF workflow # None
    THEN Append(steps, [step_id |-> step_id, type |-> StepClassName(method)])
    ELSE steps

\* "Update workflow steps if workflow reference is available"
update_steps(steps, workflow, step_id, method) ==
    IF workflow # None /\ step_id \notin StepIdsOf(steps)
    THEN Append(steps, [step_id |-> step_id, type |-> StepClassName(method)])
    ELSE steps

\* StepHandler._execute_step on handler sh, whose workflow's steps list is steps:
\* the handler and the steps list afterwards, what the call raised or returned,
\* and the calls it made of the skip predicate and of the resolver
execute_step(sh, steps, call) ==
    LET invoke_skip == Truthy(call.skip) /\ Callable(call.skip)
        r == resolve(call.resolver, call.controls)
    IN IF invoke_skip /\ SkipRaises(call.skip) # "none"
       THEN [sh |-> sh, steps |-> steps, raised |-> SkipRaises(call.skip),
             result |-> "none", skip_calls |-> 1, tried |-> <<>>]
       ELSE IF invoke_skip /\ SkipReturnsTruthy(call.skip)
       THEN [sh |-> [sh EXCEPT !.step_results = SetItem(@, call.step_id, "skipped")],
             steps |-> steps, raised |-> "none", result |-> "skipped",
             skip_calls |-> 1, tried |-> <<>>]
       ELSE IF r.raised # "none"
       THEN [sh |-> sh, steps |-> steps, raised |-> r.raised, result |-> "none",
             skip_calls |-> IF invoke_skip THEN 1 ELSE 0, tried |-> r.tried]
       ELSE [sh |-> [sh EXCEPT !.step_results = SetItem(@, call.step_id, r.result),
                               !.executed_steps = Append(@, call.step_id)],
             steps |-> update_steps(steps, sh.workflow, call.step_id, call.method),
             raised |-> "none", result |-> r.result,
             skip_calls |-> IF invoke_skip THEN 1 ELSE 0, tried |-> r.tried]

---------------------------------------------------------------------------
(* Workflow.trigger *)

\* a schema that accepts every payload
validation_raises_never(payload_schema, payload) == "none"

\* self.payload_schema(**payload): pydantic raises ValidationError when a
\* required field is missing; the instance keeps the declared fields only
validation_raises(payload_schema, payload) ==
    IF payload_schema.kind # "none" /\ ~(payload_schema.required \subseteq payload)
    THEN "ValidationError" ELSE "none"

\* validated_payload of trigger: the payload dict itself without a schema,
\* the schema instance with one
validate(payload_schema, payload) ==
    IF payload_schema.kind = "none"
    THEN [kind |-> "dict", keys |-> payload]
    ELSE [kind |-> "model", keys |-> payload \cap payload_schema.fields]

\* a result that carries the validated payload
trigger_result_validated(workflow, step_handler, payload, validated_payload, handler_ret, to, metadata) ==
    [workflow_id |-> workflow.workflow_id,
     status |-> "completed",
     step_results |-> step_handler.step_results,
     payload |-> validated_payload]

\* the dict trigger returns
trigger_result(workflow, step_handler, payload, validated_payload, handler_ret, to, metadata) ==
    [workflow_id |-> workflow.workflow_id,
     status |-> "completed",
     step_results |-> step_handler.step_results,
     payload |-> [kind |-> "dict", keys |-> payload]]

\* objects[o].trigger(to, payload, metadata), up to the call of the handler:
\* validation, then a fresh StepHandler; at most maxTriggers are started
Trigger(o, payload, args, maxTriggers) ==
    LET w == objects[o]
        exc == validation_raises(w.payload_schema, payload)
    IN /\ o \in 1..Len(objects)
       /\ Len(triggers) < maxTriggers
       /\ triggers' = Append(triggers,
            [wf |-> o, to |-> args.to, payload |-> payload, metadata |-> args.metadata,
             pc |-> IF exc = "none" THEN "running" ELSE "raised",
             raised |-> exc,
             validated_payload |->
                 IF exc = "none" THEN validate(w.payload_schema, payload)
                 ELSE [kind |-> "none", keys |-> {}],
             handler_arg |->
                 IF exc = "none" THEN validate(w.payload_schema, payload)
                 ELSE [kind |-> "none", keys |-> {}],
             handler_called |-> exc = "none",
             step_handler |-> IF exc = "none" THEN StepHandler(payload, o)
                              ELSE StepHandler({}, None),
             handler_ret |-> "None",
             result |-> None,
             awaited |-> 0,
             pending |-> <<>>,
             calls |-> <<>>])
       /\ UNCHANGED <<objects, registry, last, stepCalls>>
       /\ UNCHANGED http
       /\ UNCHANGED decorators

\* the running handler of trigger t makes one step call: step.<method>(step_id,
\* resolver, skip=..., controls=...), that is _execute_step.  An exception of
\* the call leaves the handler and trigger.  At most maxSteps calls are made.
StepCall(t, call, maxSteps) ==
    LET tr == triggers[t]
        r == execute_step(tr.step_handler, objects[tr.wf].steps, call)
    IN /\ t \in 1..Len(triggers)
       /\ tr.pc = "running"
       /\ stepCalls < maxSteps
       /\ stepCalls' = stepCalls + 1
       /\ triggers' = [triggers EXCEPT ![t] =
            [@ EXCEPT !.step_handler = r.sh,
                      !.pc = IF r.raised = "none" THEN "running" ELSE "raised",
                      !.raised = r.raised,
                      !.calls = Append(@, [call |-> call,
                                           seen |-> tr.step_handler.step_results,
                                           skip_calls |-> r.skip_calls,
                                           tried |-> r.tried,
                                           raised |-> r.raised,
                                           result |-> r.result])]]
       /\ objects' = [objects EXCEPT ![tr.wf].steps = r.steps]
       /\ UNCHANGED <<registry, last>>
       /\ UNCHANGED http
       /\ UNCHANGED decorators

\* _execute_step of trigger t run by a thread that can be suspended between
\* the test `step_id not in [... for step in self.workflow.steps]` and the
\* append: the call up to and including the test.  The entry to append is
\* pending when the test found no step of that id.
ExecuteStepCheck(t, call, maxSteps) ==
    LET tr == triggers[t]
        r == execute_step(tr.step_handler, objects[tr.wf].steps, call)
    IN /\ t \in 1..Len(triggers)
       /\ tr.pc = "running"
       /\ tr.pending = <<>>
       /\ stepCalls < maxSteps
       /\ stepCalls' = stepCalls + 1
       /\ triggers' = [triggers EXCEPT ![t] =
            [@ EXCEPT !.step_handler = r.sh,
                      !.pc = IF r.raised = "none" THEN "running" ELSE "raised",
                      !.raised = r.raised,
                      !.pending = IF r.steps # objects[tr.wf].steps
                                  THEN <<r.steps[Len(r.steps)]>> ELSE <<>>,
                      !.calls = Append(@, [call |-> call,
                                           seen |-> tr.step_handler.step_results,
                                           skip_calls |-> r.skip_calls,
                                           tried |-> r.tried,
                                           raised |-> r.raised,
                                           result |-> r.result])]]
       /\ UNCHANGED <<objects, registry, last>>
       /\ UNCHANGED http
       /\ UNCHANGED decorators

\* the thread of trigger t goes on after the test: self.workflow.steps.append
ExecuteStepAppend(t) ==
    LET tr == triggers[t]
    IN /\ t \in 1..Len(triggers)
       /\ tr.pending # <<>>
       /\ triggers' = [triggers EXCEPT ![t].pending = <<>>]
       /\ objects' = [objects EXCEPT ![tr.wf].steps = Append(@, tr.pending[1])]
       /\ UNCHANGED <<registry, last, stepCalls>>
       /\ UNCHANGED http
       /\ UNCHANGED decorators

\* the running handler of trigger t evaluates "await step.<method>(step_id,
\* resolver, ...)": the step call is made as in StepCall and, when it returns,
\* the dict it returns is awaited, which raises TypeError (a dict is not
\* awaitable); the exception leaves the handler and trigger
AwaitStep(t, call, maxSteps) ==
    LET tr == triggers[t]
        r == execute_step(tr.step_handler, objects[tr.wf].steps, call)
    IN /\ t \in 1..Len(triggers)
       /\ tr.pc = "running"
       /\ stepCalls < maxSteps
       /\ stepCalls' = stepCalls + 1
       /\ triggers' = [triggers EXCEPT ![t] =
            [@ EXCEPT !.step_handler = r.sh,
                      !.pc = "raised",
                      !.raised = IF r.raised = "none" THEN "TypeError" ELSE r.raised,
                      !.awaited = IF r.raised = "none" THEN @ + 1 ELSE @,
                      !.calls = Append(@, [call |-> call,
                                           seen |-> tr.step_handler.step_results,
                                           skip_calls |-> r.skip_calls,
                                           tried |-> r.tried,
                                           raised |-> r.raised,
                                           result |-> r.result])]]
       /\ objects' = [objects EXCEPT ![tr.wf].steps = r.steps]
       /\ UNCHANGED <<registry, last>>
       /\ UNCHANGED http
       /\ UNCHANGED decorators

\* the handler of trigger t returns: trigger returns its result dict
HandlerReturn(t, ret) ==
    LET tr == triggers[t]
    IN /\ t \in 1..Len(triggers)
       /\ tr.pc = "running"
       /\ triggers' = [triggers EXCEPT ![t] =
            [@ EXCEPT !.pc = "returned",
                      !.handler_ret = ret,
                      !.result = trigger_result(objects[tr.wf], tr.step_handler,
                                                tr.payload, tr.validated_payload,
                                                ret, tr.to, tr.metadata)]]
       /\ UNCHANGED <<objects, registry, last, stepCalls>>
       /\ UNCHANGED http
       /\ UNCHANGED decorators

\* the handler of trigger t raises outside any step call: trigger raises
HandlerRaise(t, exc) ==
    /\ t \in 1..Len(triggers)
    /\ triggers[t].pc = "running"
    /\ triggers' = [triggers EXCEPT ![t] = [@ EXCEPT !.pc = "raised", !.raised = exc]]
    /\ UNCHANGED <<objects, registry, last, stepCalls>>
    /\ UNCHANGED http
    /\ UNCHANGED decorators

---------------------------------------------------------------------------
(* The HTTP adapters (fastapi.serve and flask.serve): workflow_map and the *)
(* request handlers.  A response is the status code, the media of the body *)
(* and, for a JSON object, its member names and the members' values.       *)

\* a step.<attr>(...) call of a handler's source: the method name and the
\* depth of the ast.Call node in the tree ast.parse builds (Module,
\* FunctionDef, Expr, Call for a call that is a statement of the body)
StepCallNode(attr, depth) == [attr |-> attr, depth |-> depth]

\* inspect.getsource(handler) and the step.<attr>(...) calls of the text, in
\* the order of the text.  h1 is a function of two step calls; the source of
\* h2 cannot be read (OSError or TypeError); the source of h3 is read but
\* ast.parse refuses it; h4 is
\*     def h4(payload, step):
\*         if payload.get("vip"):
\*             step.in_app(...)
\*         step.email(...)
\*         step.chat(...)
\*         step.digest(...)
HandlerSource(handler) ==
    CASE handler = "h1" -> [readable |-> TRUE, parsable |-> TRUE,
                            calls |-> <<StepCallNode("in_app", 3), StepCallNode("email", 3)>>]
      [] handler = "h3" -> [readable |-> TRUE, parsable |-> FALSE, calls |-> <<>>]
      [] handler = "h4" -> [readable |-> TRUE, parsable |-> TRUE,
                            calls |-> <<StepCallNode("in_app", 4), StepCallNode("email", 3),
                                        StepCallNode("chat", 3), StepCallNode("digest", 3)>>]
      [] OTHER -> [readable |-> FALSE, parsable |-> FALSE, calls |-> <<>>]

\* the queue of ast.walk after a node is reached: the node stands behind the
\* nodes that are not deeper than it and before the deeper ones
Enqueue(queue, node) ==
    LET k == Cardinality({i \in 1..Len(queue) : queue[i].depth <= node.depth})
    IN SubSeq(queue, 1, k) \o <<node>> \o SubSeq(queue, k + 1, Len(queue))

RECURSIVE WalkFirst(_, _)
\* the order in which ast.walk yields the first n nodes of the text
WalkFirst(nodes, n) ==
    IF n = 0 THEN <<>>
    ELSE LET queue == WalkFirst(nodes, n - 1) IN Enqueue(queue, nodes[n])

\* ast.walk(tree): breadth-first, so a node comes after every node that is
\* less deep, and nodes of one depth come in the order of the text
ast_walk(nodes) == WalkFirst(nodes, Len(nodes))

RECURSIVE FuncAttrs(_)
\* node.func.attr of each node of a sequence
FuncAttrs(nodes) ==
    IF nodes = <<>> THEN <<>> ELSE <<Head(nodes).attr>> \o FuncAttrs(Tail(nodes))

\* for each handler, node.func.attr of its step calls in the order ast.walk
\* yields them
Walks == [handler \in Handlers |-> FuncAttrs(ast_walk(HandlerSource(handler).calls))]

WalkedAttrs(handler) == Walks[handler]

RECURSIVE CountIn(_, _)
CountIn(calls, attrs) ==
    IF calls = <<>> THEN 0
    ELSE (IF Head(calls) \in attrs THEN 1 ELSE 0) + CountIn(Tail(calls), attrs)

\* a count taken from the steps recorded by the triggers that have run
count_steps_in_workflow_live(workflow) == Len(workflow.steps)

\* count_steps_in_workflow: 0 when the source cannot be read or parsed
count_steps_in_workflow(workflow) ==
    IF HandlerSource(workflow.handler).readable /\ HandlerSource(workflow.handler).parsable
    THEN CountIn(WalkedAttrs(workflow.handler), {"in_app", "email", "sms", "push"})
    ELSE 0

\* step_code of a step detail: the f-string of each adapter
step_code(adapter, step_type, step_id) ==
    IF adapter = "fastapi"
    THEN "step." \o step_type \o "('" \o step_id \o "', () => {})"
    ELSE "step." \o step_type \o "('" \o step_id \o "', () => {}"

RECURSIVE StepDetails(_, _, _)
\* the loop over ast.walk(tree) of _extract_workflow_steps
StepDetails(adapter, calls, step_counter) ==
    IF calls = <<>> THEN <<>>
    ELSE IF Head(calls) \in {"in_app", "email", "sms", "push", "chat"}
    THEN <<[stepId |-> "step-" \o ToString(step_counter + 1),
            type |-> Head(calls),
            code |-> step_code(adapter, Head(calls), "step-" \o ToString(step_counter + 1)),
            providers |-> <<Head(calls)>>]>>
         \o StepDetails(adapter, Tail(calls), step_counter + 1)
    ELSE StepDetails(adapter, Tail(calls), step_counter)

\* _extract_workflow_steps: [] when the source cannot be read or parsed
extract_workflow_steps(adapter, workflow) ==
    IF HandlerSource(workflow.handler).readable /\ HandlerSource(workflow.handler).parsable
    THEN StepDetails(adapter, WalkedAttrs(workflow.handler), 0)
    ELSE <<>>

\* code that is the placeholder whenever the steps cannot be extracted
workflow_code_unparsed(workflow_id, workflow) ==
    IF HandlerSource(workflow.handler).readable /\ HandlerSource(workflow.handler).parsable
    THEN [kind |-> "source", of |-> workflow.handler]
    ELSE [kind |-> "placeholder", of |-> workflow_id]

\* the code of a workflow: inspect.getsource(handler), or the placeholder
\* "# Workflow <id>" with an empty handler when getsource raises
workflow_code(workflow_id, workflow) ==
    IF HandlerSource(workflow.handler).readable
    THEN [kind |-> "source", of |-> workflow.handler]
    ELSE [kind |-> "placeholder", of |-> workflow_id]

\* _extract_workflow_details, as DiscoverResponse dumps it by alias
extract_workflow_details(adapter, workflow_id, workflow) ==
    [workflowId |-> workflow_id,
     severity |-> "none",
     steps |-> extract_workflow_steps(adapter, workflow),
     code |-> workflow_code(workflow_id, workflow)]

\* the exceptions of error_handling, by class, message and status code
ValidationError(message) == [class |-> "ValidationError", message |-> message, status_code |-> 400]
NotFoundError(message) == [class |-> "NotFoundError", message |-> message, status_code |-> 404]

\* handle_error: the error response dictionary
handle_error(error) ==
    IF error.class \in {"ValidationError", "NotFoundError", "InternalError"}
    THEN [detail |-> error.message, status_code |-> error.status_code, type |-> error.class]
    ELSE IF error.class = "HTTPException"
    THEN [detail |-> error.message, status_code |-> error.status_code, type |-> "HTTPException"]
    ELSE IF error.class = "ValueError"
    THEN [detail |-> error.message, status_code |-> 400, type |-> "ValueError"]
    ELSE [detail |-> "Internal server error", status_code |-> 500, type |-> "InternalServerError"]

\* validate_action: the error it raises, "none" when it returns
validate_action(action) ==
    IF action \notin {"health-check", "discover", "code"}
    THEN ValidationError("Invalid action: " \o action
                         \o ". Valid actions: health-check, discover, code")
    ELSE [class |-> "none", message |-> "", status_code |-> 0]

\* FastAPI: raise HTTPException(status_code, detail), answered as {"detail": detail}
HTTPException(adapter, request, status_code, detail) ==
    [Response(adapter, request, status_code, "json", {"detail"}) EXCEPT !.detail = detail]

\* a refusal of the request answered as a validation error of the handler
RequestValidationError_400(adapter, request) ==
    [Response(adapter, request, 400, "json", {"detail"}) EXCEPT !.detail = "Invalid request"]

\* FastAPI: a query parameter or a body that fails the declared type is
\* refused before the route function runs, with 422 and a list of errors
RequestValidationErrors == "<list of validation errors>"
RequestValidationError(adapter, request) ==
    [Response(adapter, request, 422, "json", {"detail"}) EXCEPT !.detail = RequestValidationErrors]

\* FastAPI: the value the route function returns cannot be serialised; the
\* exception reaches the server, which answers 500 in plain text
ServerError(adapter, request) == Response(adapter, request, 500, "text", {})

\* Flask: jsonify(handle_error(e)), error_response["status_code"]
ErrorResponse(adapter, request, error) ==
    [Response(adapter, request, handle_error(error).status_code, "json",
              {"detail", "status_code", "type"})
       EXCEPT !.detail = handle_error(error).detail]

\* Flask: jsonify({"detail": detail}), status
DetailResponse(adapter, request, status, detail) ==
    [Response(adapter, request, status, "json", {"detail"}) EXCEPT !.detail = detail]

RECURSIVE SumSteps(_)
\* the loop of _handle_health_check over workflow_map.values()
SumSteps(order) ==
    IF order = <<>> THEN 0
    ELSE count_steps_in_workflow(objects[served.map[Head(order)]]) + SumSteps(Tail(order))

\* a health check that counts the workflows of the global registry
handle_health_check_registry(adapter, request) ==
    [Response(adapter, request, 200, "json",
              {"status", "sdkVersion", "frameworkVersion", "discovered"})
       EXCEPT !.health = "ok",
              !.workflows = Cardinality(DOMAIN registry),
              !.steps = SumSteps(served.order)]

\* _handle_health_check and _handle_health_check_flask
handle_health_check(adapter, request) ==
    [Response(adapter, request, 200, "json",
              {"status", "sdkVersion", "frameworkVersion", "discovered"})
       EXCEPT !.health = "ok",
              !.workflows = Len(served.order),
              !.steps = SumSteps(served.order)]

RECURSIVE DetailsOf(_, _)
\* the loop of _handle_discover over workflow_map.items()
DetailsOf(adapter, order) ==
    IF order = <<>> THEN <<>>
    ELSE <<extract_workflow_details(adapter, Head(order), objects[served.map[Head(order)]])>>
         \o DetailsOf(adapter, Tail(order))

\* _handle_discover and _handle_discover_flask
handle_discover(adapter, request) ==
    [Response(adapter, request, 200, "json", {"workflows"})
       EXCEPT !.list = DetailsOf(adapter, served.order)]

\* the code response of _handle_code and _handle_code_flask for a served id
handle_code(adapter, request) ==
    [Response(adapter, request, 200, "json", {"code"})
       EXCEPT !.code = workflow_code(request.workflow_id,
                                     objects[served.map[request.workflow_id]])]

\* a test that takes the empty string for an id
Missing_absent(workflow_id) == workflow_id = "absent"

\* "not workflow_id": the parameter is missing or empty
Missing(workflow_id) == workflow_id \in {"absent", ""}

\* the detail of a not-found answer
NotFoundDetail(workflow_id) == "Workflow '" \o workflow_id \o "' not found"

\* handle_get_action of fastapi.serve: the action parameter is declared as
\* GetActionEnum with default health-check
fastapi_handle_get_action(request) ==
    LET action == IF request.action = "absent" THEN "health-check" ELSE request.action
        id == request.workflow_id
        error == IF Missing(id)
                 THEN ValidationError("workflow_id is required for this action")
                 ELSE NotFoundError(NotFoundDetail(id))
    IN IF action \notin GetActions
       THEN RequestValidationError("fastapi", request)
       ELSE IF action = "health-check" THEN handle_health_check("fastapi", request)
       ELSE IF action = "discover" THEN handle_discover("fastapi", request)
       ELSE IF ~Missing(id) /\ id \in DOMAIN served.map
       THEN handle_code("fastapi", request)
       ELSE HTTPException("fastapi", request, handle_error(error).status_code,
                          handle_error(error).detail)

\* handle_get_action of flask.serve: request.args.get("action", "health-check")
flask_handle_get_action(request) ==
    LET action_param == IF request.action = "absent" THEN "health-check" ELSE request.action
        id == request.workflow_id
    IN IF validate_action(action_param).class # "none"
       THEN ErrorResponse("flask", request, validate_action(action_param))
       ELSE IF action_param = "health-check" THEN handle_health_check("flask", request)
       ELSE IF action_param = "discover" THEN handle_discover("flask", request)
       ELSE IF Missing(id)
       THEN ErrorResponse("flask", request,
                          ValidationError("workflow_id is required for this action"))
       ELSE IF id \notin DOMAIN served.map
       THEN ErrorResponse("flask", request, NotFoundError(NotFoundDetail(id)))
       ELSE handle_code("flask", request)

handle_get_action(adapter, request) ==
    IF adapter = "fastapi" THEN fastapi_handle_get_action(request)
    ELSE flask_handle_get_action(request)

\* an exception that is no NovuError and no HTTPException, raised by a
\* function called while an action is served
ExceptionClasses == {"Exception", "RuntimeError", "ValueError"}
Raised(class) == [class |-> class, message |-> "Test error", status_code |-> 0]

\* handle_get_action when a function called by _handle_health_check or
\* _handle_discover raises: `except Exception` hands the exception to
\* handle_error; FastAPI raises HTTPException with the status code and the
\* detail of the error response, Flask answers the error response itself
handle_get_action_raising(adapter, request, class) ==
    IF adapter = "fastapi"
    THEN HTTPException("fastapi", request, handle_error(Raised(class)).status_code,
                       handle_error(Raised(class)).detail)
    ELSE ErrorResponse("flask", request, Raised(class))

\* execute_workflow of fastapi.serve: the body is declared as TriggerPayload;
\* workflow.trigger(...) is called and not awaited, so the route function
\* returns the coroutine object, which never runs
fastapi_execute_workflow(request) ==
    IF request.body # "valid"
    THEN RequestValidationError("fastapi", request)
    ELSE IF request.workflow_id \notin DOMAIN served.map
    THEN HTTPException("fastapi", request, 404, NotFoundDetail(request.workflow_id))
    ELSE ServerError("fastapi", request)

\* an execute_workflow of Flask that reads the body before it looks the id up
flask_execute_workflow_body_first(request) ==
    IF request.body = "empty"
    THEN DetailResponse("flask", request, 400, "Invalid JSON payload")
    ELSE IF request.body = "invalid"
    THEN DetailResponse("flask", request, 400, "Validation error: to: Field required")
    ELSE IF request.body = "malformed"
    THEN DetailResponse("flask", request, 400, "Invalid JSON")
    ELSE IF request.workflow_id \notin DOMAIN served.map
    THEN DetailResponse("flask", request, 404, NotFoundDetail(request.workflow_id))
    ELSE DetailResponse("flask", request, 500,
                        "Object of type coroutine is not JSON serializable")

\* execute_workflow of flask.serve: jsonify(result) raises TypeError for the
\* coroutine object workflow.trigger(...) returns, which never runs
flask_execute_workflow(request) ==
    IF request.workflow_id \notin DOMAIN served.map
    THEN DetailResponse("flask", request, 404, NotFoundDetail(request.workflow_id))
    ELSE IF request.body = "empty"
    THEN DetailResponse("flask", request, 400, "Invalid JSON payload")
    ELSE IF request.body = "invalid"
    THEN DetailResponse("flask", request, 400, "Validation error: to: Field required")
    ELSE IF request.body = "malformed"
    THEN DetailResponse("flask", request, 400, "Invalid JSON")
    ELSE DetailResponse("flask", request, 500,
                        "Object of type coroutine is not JSON serializable")

execute_workflow(adapter, request) ==
    IF adapter = "fastapi" THEN fastapi_execute_workflow(request)
    ELSE flask_execute_workflow(request)

RECURSIVE BuildMap_appends(_, _)
\* a map that lists an id once for every workflow of the list that has it
BuildMap_appends(ws, acc) ==
    IF ws = <<>> THEN acc
    ELSE BuildMap_appends(Tail(ws),
           [up |-> TRUE,
            order |-> Append(acc.order, objects[Head(ws)].workflow_id),
            map |-> SetItem(acc.map, objects[Head(ws)].workflow_id, Head(ws))])

RECURSIVE BuildMap(_, _)
\* the loop of serve: a later workflow replaces an earlier one with its id
BuildMap(ws, acc) ==
    IF ws = <<>> THEN acc
    ELSE LET id == objects[Head(ws)].workflow_id
         IN BuildMap(Tail(ws),
              [up |-> TRUE,
               order |-> IF id \in DOMAIN acc.map THEN acc.order ELSE Append(acc.order, id),
               map |-> SetItem(acc.map, id, Head(ws))])

RECURSIVE Ascending(_)
\* the members of a set of heap indices, in construction order
Ascending(S) ==
    IF S = {} THEN <<>>
    ELSE LET m == CHOOSE x \in S : \A y \in S : x <= y
         IN <<m>> \o Ascending(S \ {m})

\* serve(app, workflows=ws) of either adapter, for both apps: builds
\* workflow_map from the list
Serve(ws) ==
    /\ ~served.up
    /\ served' = BuildMap(ws, [up |-> TRUE, order |-> <<>>, map |-> EmptyDict])
    /\ UNCHANGED <<objects, registry, last, triggers, stepCalls, response>>
    /\ UNCHANGED decorators

\* GET <prefix>[?action=<action>][&workflow_id=<id>] to an adapter
HandleGetAction(adapter, action, workflow_id) ==
    /\ served.up
    /\ response' = handle_get_action(adapter, GetRequest(action, workflow_id))
    /\ last' = NoCall
    /\ UNCHANGED <<objects, registry, triggers, stepCalls, served>>
    /\ UNCHANGED decorators

\* GET <prefix>[?action=<action>] to an adapter, for health-check or discover,
\* while a function called by the action raises an exception of a class; the
\* request records the class
HandleGetActionRaising(adapter, action, class) ==
    /\ served.up
    /\ action \in {"absent", "health-check", "discover"}
    /\ response' = handle_get_action_raising(
                       adapter, [GetRequest(action, "absent") EXCEPT !.handler = class], class)
    /\ last' = NoCall
    /\ UNCHANGED <<objects, registry, triggers, stepCalls, served>>
    /\ UNCHANGED decorators

\* POST <prefix>/workflows/<id>/execute to an adapter
ExecuteWorkflow(adapter, workflow_id, body, handler) ==
    /\ served.up
    /\ response' = execute_workflow(adapter, ExecuteRequest(workflow_id, body, handler))
    /\ last' = NoCall
    /\ UNCHANGED <<objects, registry, triggers, stepCalls, served>>
    /\ UNCHANGED decorators

---------------------------------------------------------------------------
(* The registry's life cycle: construction, decoration, register, get and  *)
(* clear, with triggers running in between                                 *)

\* the workflows defined: (id, handler, payload schema, name)
Definitions ==
    {[id |-> "w1", handler |-> "h1", schema |-> NameSchema, name |-> "None"],
     [id |-> "w2", handler |-> "h2", schema |-> NoSchema, name |-> "Welcome"]}

\* the step calls made by the handlers of these workflows
FewStepCalls ==
    {[method |-> "in_app", step_id |-> "s1", controls |-> "absent", skip |-> "absent",
      resolver |-> Resolver("callable", "return", "return", "return")],
     [method |-> "email", step_id |-> "s2", controls |-> "absent", skip |-> "fn_true",
      resolver |-> DictResolver]}

Init ==
    /\ objects = <<>>
    /\ registry = EmptyDict
    /\ last = NoCall
    /\ triggers = <<>>
    /\ stepCalls = 0
    /\ served = NotServed
    /\ response = NoResponse
    /\ decorators = <<>>

Next ==
    \/ \E d \in Definitions : NewWorkflow(d.id, d.handler, d.schema, d.name, MaxWorkflows)
    \/ \E d \in Definitions : Decorate(d.id, d.handler, d.schema, d.name, MaxWorkflows)
    \/ \E o \in 1..Len(objects) : Register(o)
    \/ \E id \in WorkflowIds : Get(id)
    \/ Clear
    \/ \E o \in 1..Len(objects) :
          Trigger(o, {"name"}, [to |-> "u1", metadata |-> "None"], MaxTriggers)
    \/ \E t \in 1..Len(triggers), c \in FewStepCalls : StepCall(t, c, MaxSteps)
    \/ \E t \in 1..Len(triggers) : HandlerReturn(t, "None")
    \/ \E t \in 1..Len(triggers) : HandlerRaise(t, "ValueError")

Spec == Init /\ [][Next]_vars

---------------------------------------------------------------------------
(* An application: workflows are decorated, served over HTTP and triggered, *)
(* and the registry is cleared                                             *)

AppNext ==
    \/ \E d \in Definitions : Decorate(d.id, d.handler, d.schema, d.name, AppWorkflows)
    \/ \E id \in WorkflowIds : Get(id)
    \/ Clear
    \/ Serve(Ascending({registry[id] : id \in DOMAIN registry}))
    \/ \E a \in {"absent", "discover"} : HandleGetAction("fastapi", a, "absent")
    \/ HandleGetAction("fastapi", "code", "w1")
    \/ ExecuteWorkflow("fastapi", "w1", "valid", "completes")
    \/ \E o \in 1..Len(objects) :
          Trigger(o, {"name"}, [to |-> "u1", metadata |-> "None"], AppCalls - stepCalls)
    \/ \E t \in 1..Len(triggers) :
          StepCall(t, [method |-> "in_app", step_id |-> "s1", controls |-> "absent",
                       skip |-> "absent",
                       resolver |-> Resolver("callable", "return", "return", "return")],
                   AppCalls - Len(triggers))
    \/ \E t \in 1..Len(triggers) : HandlerReturn(t, "None")

AppSpec == Init /\ [][AppNext]_vars

---------------------------------------------------------------------------
(* Steady state: the workflows are registered, none is added or removed *)

SteadyInit ==
    /\ objects = <<Workflow("w1", "h1", NameSchema, "None"),
                   Workflow("w2", "h2", NoSchema, "Welcome")>>
    /\ registry = [id \in WorkflowIds |-> IF id = "w1" THEN 1 ELSE 2]
    /\ last = NoCall
    /\ triggers = <<>>
    /\ stepCalls = 0
    /\ served = NotServed
    /\ response = NoResponse
    /\ decorators = <<>>

StepCallOf(method, step_id, skip, controls, kind, onControls, onNoargs, onPayload) ==
    [method |-> method, step_id |-> step_id, skip |-> skip, controls |-> controls,
     resolver |-> Resolver(kind, onControls, onNoargs, onPayload)]

(* One trigger call in isolation, with every kind of step outcome *)

TrigStepCalls ==
    UNION {{StepCallOf("in_app", id, "absent", "absent", "callable", "return", "return", "return"),
            StepCallOf("email", id, "fn_true", "absent", "callable", "return", "return", "return"),
            StepCallOf("sms", id, "fn_false", "nonempty", "callable", "return", "return", "return"),
            StepCallOf("push", id, "absent", "nonempty", "callable", "TypeError", "TypeError", "return"),
            StepCallOf("in_app", id, "absent", "empty", "callable", "return", "TypeError", "TypeError"),
            StepCallOf("email", id, "absent", "absent", "callable", "return", "ValueError", "return"),
            StepCallOf("in_app", id, "absent", "nonempty", "callable", "TypeError", "ValueError", "return"),
            StepCallOf("sms", id, "fn_ValueError", "absent", "callable", "return", "return", "return"),
            StepCallOf("push", id, "fn_TypeError", "nonempty", "callable", "return", "return", "return"),
            StepCallOf("email", id, "True", "absent", "dict", "return", "return", "return"),
            StepCallOf("sms", id, "False", "absent", "other", "return", "return", "return")}
           : id \in StepIds}

TriggerNext ==
    \/ \E o \in 1..Len(objects), p \in Payloads, a \in TriggerArgs :
          triggers = <<>> /\ Trigger(o, p, a, 1)
    \/ \E c \in TrigStepCalls : StepCall(1, c, TrigSteps)
    \/ \E r \in HandlerReturns : HandlerReturn(1, r)
    \/ HandlerRaise(1, "ValueError")

TriggerSpec == SteadyInit /\ [][TriggerNext]_vars

(* Interleaved triggers of the registered workflows *)

ConcStepCalls ==
    UNION {{StepCallOf("in_app", id, "absent", "absent", "callable", "return", "return", "return"),
            StepCallOf("email", id, "fn_true", "absent", "dict", "return", "return", "return")}
           : id \in StepIds}

ConcurrentNext ==
    \/ \E o \in 1..Len(objects) :
          Trigger(o, {"name"}, [to |-> "u1", metadata |-> "None"], ConcTriggers)
    \/ \E t \in 1..Len(triggers), c \in ConcStepCalls : StepCall(t, c, ConcSteps)
    \/ \E t \in 1..Len(triggers) : HandlerReturn(t, "None")
    \/ \E t \in 1..Len(triggers) : HandlerRaise(t, "ValueError")

ConcurrentSpec == SteadyInit /\ [][ConcurrentNext]_vars

(* One StepHandler, every step call *)

\* the resolvers tried with every value of the skip option
ProbeResolvers ==
    {DictResolver,
     Resolver("callable", "return", "return", "return"),
     Resolver("callable", "TypeError", "ValueError", "return")}

StepNext ==
    \/ triggers = <<>> /\ Trigger(2, {"name"}, [to |-> "u1", metadata |-> "None"], 1)
    \/ \E id \in {"s1"}, r \in Resolvers, c \in Controls, s \in {"absent", "fn_true", "fn_false"} :
          StepCall(1, [method |-> "in_app", step_id |-> id,
                       resolver |-> r, skip |-> s, controls |-> c], ProbeSteps)
    \/ \E id \in StepIds, r \in ProbeResolvers, s \in Skips :
          StepCall(1, [method |-> IF id = "s1" THEN "sms" ELSE "push", step_id |-> id,
                       resolver |-> r, skip |-> s, controls |-> "nonempty"], ProbeSteps)
    \/ HandlerReturn(1, "None")

StepSpec == SteadyInit /\ [][StepNext]_vars

(* Triggers run by threads, which interleave inside _execute_step *)

RaceNext ==
    \/ \E o \in 1..Len(objects) :
          Trigger(o, {"name"}, [to |-> "u1", metadata |-> "None"], RaceTriggers)
    \/ \E t \in 1..Len(triggers), c \in ConcStepCalls : ExecuteStepCheck(t, c, RaceSteps)
    \/ \E t \in 1..Len(triggers) : ExecuteStepAppend(t)
    \/ \E t \in 1..Len(triggers) : triggers[t].pending = <<>> /\ HandlerReturn(t, "None")

RaceSpec == SteadyInit /\ [][RaceNext]_vars

(* One trigger whose handler awaits the values its step calls return *)

AsyncNext ==
    \/ \E o \in 1..Len(objects), p \in Payloads :
          triggers = <<>> /\ Trigger(o, p, [to |-> "u1", metadata |-> "None"], 1)
    \/ \E c \in ConcStepCalls : StepCall(1, c, AsyncSteps)
    \/ \E c \in ConcStepCalls : AwaitStep(1, c, AsyncSteps)
    \/ \E r \in HandlerReturns : HandlerReturn(1, r)

AsyncSpec == SteadyInit /\ [][AsyncNext]_vars

---------------------------------------------------------------------------
(* Decorators are made, applied to handler functions and applied again after *)
(* the registry is cleared                                                  *)

\* handler functions, by name and signature: (data: ExtraSchema, payload:
\* NameSchema), (payload: Dict[str, Any], data: ExtraSchema) and
\* (payload: Dict[str, Any], step)
Functions ==
    {[name |-> "f_named",
      parameters |-> <<[name |-> "data", annotation |-> "ExtraSchema"],
                       [name |-> "payload", annotation |-> "NameSchema"]>>],
     [name |-> "f_first",
      parameters |-> <<[name |-> "payload", annotation |-> "Dict"],
                       [name |-> "data", annotation |-> "ExtraSchema"]>>],
     [name |-> "f_untyped",
      parameters |-> <<[name |-> "payload", annotation |-> "Dict"],
                       [name |-> "step", annotation |-> "empty"]>>]}

\* the calls of workflow(...): workflow("w1") and
\* workflow("w2", payload_schema=ExtraSchema, name="Welcome")
DecoratorCalls ==
    {[id |-> "w1", schema |-> NoSchema, name |-> "None"],
     [id |-> "w2", schema |-> ExtraSchema, name |-> "Welcome"]}

DecoratorNext ==
    \/ \E c \in DecoratorCalls : MakeDecorator(c.id, c.schema, c.name, MaxDecorators)
    \/ \E d \in 1..Len(decorators), f \in Functions : ApplyDecorator(d, f, DecoratorWorkflows)
    \/ \E id \in WorkflowIds : Get(id)
    \/ Clear

DecoratorSpec == Init /\ [][DecoratorNext]_vars

---------------------------------------------------------------------------
(* The HTTP surface: a list of workflow objects is served by both adapters, *)
(* requests are answered and the workflows are triggered in between        *)

\* four workflow objects: the handler of the first has two step calls, the
\* source of the second cannot be read, the third has the id of the first and
\* a source that is read and not parsed, the fourth has the id of the second
\* and a handler of four step calls, one of them inside an if statement
HttpInit ==
    /\ objects = <<Workflow("w1", "h1", NameSchema, "None"),
                   Workflow("w2", "h2", NoSchema, "Welcome"),
                   Workflow("w1", "h3", NoSchema, "None"),
                   Workflow("w2", "h4", NoSchema, "None")>>
    /\ registry = [id \in WorkflowIds |-> IF id = "w1" THEN 1 ELSE 2]
    /\ last = NoCall
    /\ triggers = <<>>
    /\ stepCalls = 0
    /\ served = NotServed
    /\ response = NoResponse
    /\ decorators = <<>>

\* the lists serve() is given: up to HttpServed different workflow objects
ServedLists ==
    {ws \in UNION {[1..n -> 1..Len(objects)] : n \in 0..HttpServed} :
        \A i, j \in 1..Len(ws) : i # j => ws[i] # ws[j]}

\* the GET requests: workflow_id is given with action=code
GetParams ==
    {<<a, "absent">> : a \in ActionParams} \cup {<<"code", id>> : id \in WorkflowIdParams}

\* the execute requests: what the handler does matters for a valid body
ExecuteParams ==
    {<<id, "valid", h>> : id \in WorkflowIds, h \in HandlerOutcomes}
    \cup {<<id, b, "completes">> : id \in WorkflowIds, b \in Bodies}

HttpNext ==
    \/ \E ws \in ServedLists : Serve(ws)
    \/ \E a \in Adapters, g \in GetParams : HandleGetAction(a, g[1], g[2])
    \/ \E a \in Adapters, e \in ExecuteParams : ExecuteWorkflow(a, e[1], e[2], e[3])
    \/ Trigger(1, {"name"}, [to |-> "u1", metadata |-> "None"], HttpCalls - stepCalls)
    \/ \E t \in 1..Len(triggers) :
          StepCall(t, StepCallOf("in_app", "s1", "absent", "absent",
                                 "callable", "return", "return", "return"),
                   HttpCalls - Len(triggers))
    \/ \E t \in 1..Len(triggers) : HandlerReturn(t, "None")

HttpSpec == HttpInit /\ [][HttpNext]_vars

(* GET requests served while the functions they call return or raise *)

FaultNext ==
    \/ \E ws \in ServedLists : Serve(ws)
    \/ \E a \in Adapters, g \in GetParams : HandleGetAction(a, g[1], g[2])
    \/ \E a \in Adapters, g \in {"absent", "health-check", "discover"}, c \in ExceptionClasses :
          HandleGetActionRaising(a, g, c)

FaultSpec == HttpInit /\ [][FaultNext]_vars

---------------------------------------------------------------------------
(* Properties of the registry, checked under Spec *)

\* the step was a call of register (by hand or by the decorator)
RegisterCalled == last' # last /\ last'.op = "register"

\* C1: register raises ValueError whenever the workflow's id is already
\* registered and then leaves the registry as it was; it succeeds otherwise and
\* adds only that id; so an id, once mapped, stays mapped to the same (first
\* registered) workflow object until clear
C1_DuplicateRegisterRaises ==
    [][/\ RegisterCalled /\ last'.id \in DOMAIN registry
            => last'.raised = "ValueError" /\ registry' = registry
       /\ RegisterCalled /\ last'.id \notin DOMAIN registry
            => /\ last'.raised = "none"
               /\ DOMAIN registry' = DOMAIN registry \cup {last'.id}
               /\ objects'[registry'[last'.id]].workflow_id = last'.id
       /\ \A id \in DOMAIN registry :
            \/ last'.op = "clear"
            \/ id \in DOMAIN registry' /\ registry'[id] = registry[id]]_vars

\* a second workflow object with a registered id has been refused
C1_Witness ==
    /\ last.op = "register" /\ last.raised = "ValueError"
    /\ last.id \in DOMAIN registry
    /\ \E o \in 1..Len(objects) :
          objects[o].workflow_id = last.id /\ registry[last.id] # o

\* C2: only register and clear change the registry; whatever else happens
\* (get, triggers and their step calls, serve and the health-check, discover,
\* code and execute requests), every registered id is still returned by get,
\* as the same object; clear leaves no workflow, after which the id of
\* a removed workflow is accepted by register again
C2_RegistryFrame ==
    [][/\ registry' # registry => last' # last /\ last'.op \in {"register", "clear"}
       /\ \A id \in DOMAIN registry :
            last'.op # "clear" => get(registry', id) = registry[id]
       /\ last'.op = "clear" => registry' = EmptyDict /\ \A id \in WorkflowIds : get(registry', id) = None
       /\ last.op = "clear" /\ RegisterCalled
            => last'.raised = "none" /\ get(registry', last'.id) # None]_vars

\* get returns a registered workflow that is served over HTTP and whose
\* trigger has run a step and returned
C2_Witness ==
    /\ last.op = "get" /\ last.value # None
    /\ registry[last.id] = last.value
    /\ served.up /\ last.id \in DOMAIN served.map
    /\ \E t \in 1..Len(triggers) :
          /\ triggers[t].wf = last.value
          /\ triggers[t].pc = "returned"
          /\ triggers[t].calls # <<>>

---------------------------------------------------------------------------
(* Properties of one trigger, checked under TriggerSpec *)

RECURSIVE ExecutedIds(_)
\* the ids of the step calls of a log that ran their resolver to a result, in
\* call order
ExecutedIds(calls) ==
    IF calls = <<>> THEN <<>>
    ELSE (IF Head(calls).raised = "none" /\ Head(calls).result # "skipped"
          THEN <<Head(calls).call.step_id>> ELSE <<>>) \o ExecutedIds(Tail(calls))

\* step_results as step call k of trigger t left it
ResultsAfter(t, k) ==
    IF k = Len(triggers[t].calls) THEN triggers[t].step_handler.step_results
    ELSE triggers[t].calls[k + 1].seen

\* C3: within a trigger a step call starts (its skip predicate and resolver
\* are invoked) only after the previous call has returned and has recorded
\* its outcome in step_results, and executed_steps is the list of the ids of
\* the executed, non-skipped, step calls in the order they were made
C3_StepsInCallOrder ==
    \A t \in 1..Len(triggers) :
       LET cs == triggers[t].calls
       IN /\ \A k \in 2..Len(cs) :
               /\ cs[k - 1].raised = "none"
               /\ cs[k - 1].call.step_id \in DOMAIN cs[k].seen
               /\ cs[k].seen[cs[k - 1].call.step_id] = cs[k - 1].result
          /\ triggers[t].step_handler.executed_steps = ExecutedIds(cs)

\* a handler has called step s2 and then step s1, and both have executed
C3_Witness ==
    /\ Len(triggers) = 1 /\ Len(triggers[1].calls) = 2
    /\ triggers[1].calls[1].call.step_id = "s2"
    /\ triggers[1].calls[1].skip_calls = 1
    /\ triggers[1].calls[2].tried = <<"controls", "noargs", "payload">>
    /\ triggers[1].step_handler.executed_steps = <<"s2", "s1">>

---------------------------------------------------------------------------
(* Properties of a step call, checked under StepSpec *)

\* C4: a step whose skip option is a predicate returning a truthy value never
\* invokes its resolver, returns the skipped marker and stores it under its
\* id; with a predicate returning a falsy value the step does what the same
\* step without a skip option does, and a result it returns is the resolver's
\* and is stored under its id
C4_SkipPredicate ==
    \A t \in 1..Len(triggers) : \A k \in 1..Len(triggers[t].calls) :
       LET c == triggers[t].calls[k]
           id == c.call.step_id
           plain == execute_step(StepHandler({}, None), <<>>,
                                 [c.call EXCEPT !.skip = "absent"])
       IN /\ c.call.skip = "fn_true" =>
               /\ c.skip_calls = 1 /\ c.tried = <<>>
               /\ c.raised = "none" /\ c.result = "skipped"
               /\ id \in DOMAIN ResultsAfter(t, k)
               /\ ResultsAfter(t, k)[id] = "skipped"
          /\ c.call.skip = "fn_false" =>
               /\ c.skip_calls = 1
               /\ c.tried = plain.tried /\ c.raised = plain.raised
               /\ c.result = plain.result /\ c.result # "skipped"
               /\ c.call.resolver.kind = "callable" => c.tried # <<>>
               /\ c.raised = "none" =>
                    /\ id \in DOMAIN ResultsAfter(t, k)
                    /\ ResultsAfter(t, k)[id] = c.result
                    /\ c.tried # <<>> => c.result = ReturnValue(c.tried[Len(c.tried)])

\* a step with a callable resolver has been skipped by its predicate and the
\* trigger has returned the marker under the step's id
C4_Witness ==
    \E t \in 1..Len(triggers) :
       /\ triggers[t].pc = "returned"
       /\ Len(triggers[t].calls) = 1
       /\ triggers[t].calls[1].call.skip = "fn_true"
       /\ triggers[t].calls[1].call.resolver.kind = "callable"
       /\ triggers[t].calls[1].skip_calls = 1
       /\ triggers[t].result.step_results = [id \in {"s1"} |-> "skipped"]

---------------------------------------------------------------------------
(* Exceptions of step callables, checked under TriggerSpec *)

\* the resolver calls of a logged step call that raised
RaisingAttempts(c) ==
    {i \in 1..Len(c.tried) : c.call.resolver.on[c.tried[i]] # "return"}

\* step call k of trigger t raised exc, which left the handler and trigger:
\* nothing was recorded for the step, it is the handler's last step call and
\* trigger has raised exc instead of returning a result
FailsTrigger(t, k, exc) ==
    LET tr == triggers[t]
        c == tr.calls[k]
    IN /\ c.raised = exc /\ c.result = "none"
       /\ k = Len(tr.calls)
       /\ tr.step_handler.step_results = c.seen
       /\ tr.step_handler.executed_steps = ExecutedIds(SubSeq(tr.calls, 1, k - 1))
       /\ tr.pc = "raised" /\ tr.raised = exc /\ tr.result = None

\* the skip predicate of step call k of trigger t raised: the resolver is not
\* invoked and the exception fails the trigger
SkipFailure(t, k) ==
    LET c == triggers[t].calls[k]
    IN c.skip_calls = 1 /\ SkipRaises(c.call.skip) # "none"
         => c.tried = <<>> /\ FailsTrigger(t, k, SkipRaises(c.call.skip))

\* C5 as stated: an exception of any type raised by a step's skip predicate or
\* by a call of its resolver ends the step call (the callable is not invoked
\* again) and fails the trigger with nothing recorded for the step
C5_AnyExceptionFailsTrigger ==
    \A t \in 1..Len(triggers) : \A k \in 1..Len(triggers[t].calls) :
       LET c == triggers[t].calls[k]
       IN /\ SkipFailure(t, k)
          /\ \A i \in RaisingAttempts(c) :
               /\ i = Len(c.tried)
               /\ FailsTrigger(t, k, c.call.resolver.on[c.tried[i]])

\* C5, amended: an exception of the skip predicate, an exception other than
\* TypeError of a resolver call, and a TypeError of the resolver's last form
\* of call (with the payload) end the step call and fail the trigger with
\* nothing recorded for the step; a TypeError of an earlier form of call is
\* caught, and the resolver is invoked again
C5_ExceptionFailsTrigger ==
    \A t \in 1..Len(triggers) : \A k \in 1..Len(triggers[t].calls) :
       LET c == triggers[t].calls[k]
       IN /\ SkipFailure(t, k)
          /\ \A i \in RaisingAttempts(c) :
               LET exc == c.call.resolver.on[c.tried[i]]
               IN IF exc # "TypeError" \/ c.tried[i] = "payload"
                  THEN i = Len(c.tried) /\ FailsTrigger(t, k, exc)
                  ELSE i < Len(c.tried)

\* after an executed step, a resolver has raised TypeError when called with
\* the controls and ValueError when called again, which failed the trigger
C5_Witness ==
    /\ Len(triggers) = 1 /\ Len(triggers[1].calls) = 2
    /\ triggers[1].calls[1].result = "ret_noargs"
    /\ triggers[1].calls[2].tried = <<"controls", "noargs">>
    /\ triggers[1].calls[2].raised = "ValueError"
    /\ triggers[1].pc = "raised" /\ triggers[1].raised = "ValueError"
    /\ DOMAIN triggers[1].step_handler.step_results = {triggers[1].calls[1].call.step_id}
    /\ triggers[1].calls[2].call.step_id # triggers[1].calls[1].call.step_id

---------------------------------------------------------------------------
(* The outcome of a trigger, checked under TriggerSpec *)

RECURSIVE ResultsOf(_)
\* the map the step calls of a log build: each call's outcome under its id, a
\* later call of an id replacing an earlier one
ResultsOf(calls) ==
    IF calls = <<>> THEN EmptyDict
    ELSE LET c == calls[Len(calls)]
             before == ResultsOf(SubSeq(calls, 1, Len(calls) - 1))
         IN IF c.raised # "none" THEN before
            ELSE [id \in DOMAIN before \cup {c.call.step_id} |->
                    IF id = c.call.step_id THEN c.result ELSE before[id]]

\* C6: a trigger whose handler completed returns the workflow's id, the
\* status "completed", the map built by the step calls of this trigger and
\* the payload dict as it was passed in; nothing else (the handler's return
\* value, to, metadata, the validated payload) enters the record
C6_TriggerResult ==
    \A t \in 1..Len(triggers) :
       triggers[t].pc = "returned" =>
          triggers[t].result =
             [workflow_id |-> objects[triggers[t].wf].workflow_id,
              status |-> "completed",
              step_results |-> ResultsOf(triggers[t].calls),
              payload |-> [kind |-> "dict", keys |-> triggers[t].payload]]

\* a trigger of the workflow with a schema has returned: its payload has a
\* key the schema drops, its handler ran a step and returned a value
C6_Witness ==
    /\ Len(triggers) = 1
    /\ triggers[1].pc = "returned"
    /\ objects[triggers[1].wf].payload_schema = NameSchema
    /\ triggers[1].payload = {"name", "extra"}
    /\ triggers[1].validated_payload.keys = {"name"}
    /\ triggers[1].metadata = "m1"
    /\ triggers[1].handler_ret = "processed"
    /\ Len(triggers[1].calls) = 2
    /\ triggers[1].result.payload.keys = {"name", "extra"}

\* C7: a trigger whose payload lacks a field its workflow's schema requires
\* raises the validation error without the handler being invoked: no step
\* call is made, nothing is recorded and the call changes no Workflow object
\* (so no steps list); without a schema the handler is invoked with the
\* payload dict itself
C7_ValidationBeforeHandler ==
    [][\A t \in 1..Len(triggers') :
          LET tr == triggers'[t]
              schema == objects[tr.wf].payload_schema
          IN /\ schema.kind # "none" /\ ~(schema.required \subseteq tr.payload) =>
                  /\ tr.pc = "raised" /\ tr.raised = "ValidationError"
                  /\ ~tr.handler_called
                  /\ tr.calls = <<>>
                  /\ tr.step_handler.step_results = EmptyDict
                  /\ tr.result = None
                  /\ t > Len(triggers) => objects' = objects
             /\ schema.kind = "none" =>
                  /\ tr.handler_called
                  /\ tr.handler_arg = [kind |-> "dict", keys |-> tr.payload]]_vars

\* a trigger of the workflow with a schema has raised the validation error
C7_Witness ==
    /\ Len(triggers) = 1
    /\ objects[triggers[1].wf].payload_schema = NameSchema
    /\ triggers[1].payload = {"extra"}
    /\ triggers[1].pc = "raised" /\ triggers[1].raised = "ValidationError"
    /\ ~triggers[1].handler_called

---------------------------------------------------------------------------
(* Interleaved triggers, checked under ConcurrentSpec *)

\* C8: every trigger has a StepHandler of its own that starts empty: its
\* step_results, and the step_results it returns, hold exactly the ids of the
\* step calls made during that trigger (executed or skipped) with their
\* outcomes, whatever other triggers did before or in between
C8_TriggerIsolation ==
    \A t \in 1..Len(triggers) :
       LET tr == triggers[t]
           own == {tr.calls[k].call.step_id : k \in 1..Len(tr.calls)}
       IN /\ tr.calls # <<>> => tr.calls[1].seen = EmptyDict
          /\ tr.pc # "raised" =>
               /\ DOMAIN tr.step_handler.step_results = own
               /\ tr.step_handler.step_results = ResultsOf(tr.calls)
          /\ tr.pc = "returned" =>
               /\ DOMAIN tr.result.step_results = own
               /\ \A id \in own : tr.result.step_results[id] = ResultsOf(tr.calls)[id]

\* a trigger has started, run a step and returned while an earlier trigger of
\* the same workflow, which ran another step, was still running
C8_Witness ==
    /\ Len(triggers) = 2
    /\ triggers[1].wf = triggers[2].wf
    /\ triggers[1].pc = "running" /\ triggers[2].pc = "returned"
    /\ DOMAIN triggers[1].step_handler.step_results = {"s1"}
    /\ DOMAIN triggers[2].result.step_results = {"s2"}

\* trigger t made a step call in this step that executed its resolver
Executed(t) ==
    /\ t \in 1..Len(triggers)
    /\ Len(triggers'[t].calls) = Len(triggers[t].calls) + 1
    /\ LET c == triggers'[t].calls[Len(triggers'[t].calls)]
       IN c.raised = "none" /\ c.result # "skipped"

\* the entry of the steps list for the step call trigger t made in this step
StepEntry(t) ==
    LET c == triggers'[t].calls[Len(triggers'[t].calls)]
    IN [step_id |-> c.call.step_id, type |-> StepClassName(c.call.method)]

\* C9 as stated: starting a trigger, its step calls and its end change
\* neither the registry nor any Workflow object, steps lists included
C9_TriggerChangesNothingShared ==
    [][registry' = registry /\ objects' = objects]_vars

\* C9, amended: a trigger changes neither the registry nor any field of a
\* Workflow object but its steps list, and that list only grows: a step call
\* that executes its resolver appends the entry {step_id, type} to the steps
\* of the trigger's workflow when no entry has that step_id, and nothing else
\* changes the list
C9_TriggerOnlyAppendsSteps ==
    [][/\ registry' = registry
       /\ Len(objects') = Len(objects)
       /\ \A o \in 1..Len(objects) :
            /\ [objects'[o] EXCEPT !.steps = <<>>] = [objects[o] EXCEPT !.steps = <<>>]
            /\ \/ objects'[o].steps = objects[o].steps
               \/ \E t \in 1..Len(triggers) :
                     /\ triggers[t].wf = o /\ Executed(t)
                     /\ StepEntry(t).step_id \notin StepIdsOf(objects[o].steps)
                     /\ objects'[o].steps = Append(objects[o].steps, StepEntry(t))
       /\ \A t \in 1..Len(triggers) :
            Executed(t) => StepEntry(t).step_id \in StepIdsOf(objects'[triggers[t].wf].steps)]_vars

\* two triggers of a workflow have each executed step s1, and the workflow's
\* steps list has the one entry the first of them appended
C9_Witness ==
    /\ Len(triggers) = 2
    /\ triggers[1].wf = triggers[2].wf
    /\ \A t \in 1..2 : triggers[t].step_handler.executed_steps = <<"s1">>
    /\ objects[triggers[1].wf].steps = <<[step_id |-> "s1", type |-> "InAppStep"]>>

---------------------------------------------------------------------------
(* The resolver's fallback chain, checked under StepSpec *)

\* the forms of call _execute_step may make of a callable resolver, in order
Chain(controls) ==
    IF controls = "nonempty" THEN <<"controls", "noargs", "payload">>
    ELSE <<"noargs", "payload">>

\* C10: a step call that reaches its callable resolver calls it with the
\* forms of the chain in order (controls, no argument, payload with non-empty
\* controls; no argument, payload otherwise), going on to the next form only
\* after a TypeError, so between one and three times (at most twice without
\* controls); the first call that does not raise TypeError gives the result,
\* an exception of it propagates, and so does a TypeError of the last form,
\* in both cases with nothing recorded
C10_FallbackChain ==
    \A t \in 1..Len(triggers) : \A k \in 1..Len(triggers[t].calls) :
       LET c == triggers[t].calls[k]
           on == c.call.resolver.on
           chain == Chain(c.call.controls)
           n == Len(c.tried)
           reached == /\ c.call.resolver.kind = "callable"
                      /\ c.result # "skipped"
                      /\ ~(c.skip_calls = 1 /\ SkipRaises(c.call.skip) # "none")
       IN reached =>
            /\ n \in 1..Len(chain)
            /\ c.tried = SubSeq(chain, 1, n)
            /\ \A i \in 1..(n - 1) : on[c.tried[i]] = "TypeError"
            /\ n < Len(chain) => on[c.tried[n]] # "TypeError"
            /\ on[c.tried[n]] = "return" =>
                 /\ c.raised = "none" /\ c.result = ReturnValue(c.tried[n])
                 /\ ResultsAfter(t, k) =
                       [id \in DOMAIN c.seen \cup {c.call.step_id} |->
                          IF id = c.call.step_id THEN c.result ELSE c.seen[id]]
            /\ on[c.tried[n]] # "return" =>
                 /\ c.raised = on[c.tried[n]] /\ c.result = "none"
                 /\ ResultsAfter(t, k) = c.seen

\* a resolver called with the controls, with no argument and with the payload
\* has raised TypeError each time, and the last one has left the step call
C10_Witness ==
    \E t \in 1..Len(triggers) :
       /\ triggers[t].pc = "raised" /\ triggers[t].raised = "TypeError"
       /\ Len(triggers[t].calls) = 1
       /\ triggers[t].calls[1].tried = <<"controls", "noargs", "payload">>
       /\ triggers[t].calls[1].skip_calls = 1
       /\ triggers[t].step_handler.step_results = EmptyDict

---------------------------------------------------------------------------
(* Properties of the HTTP adapters, checked under HttpSpec *)

\* the last request answered was an execute request with a body TriggerPayload
\* accepts, for an id in workflow_map
ServedExecute ==
    /\ response.request.method = "POST"
    /\ response.request.body = "valid"
    /\ response.request.workflow_id \in DOMAIN served.map

\* C11: an execute request for a served workflow id with a valid body whose
\* handler completes is answered 200 with a JSON object holding workflow_id,
\* status, step_results and payload, by the FastAPI and by the Flask adapter
C11_ExecuteAnswersResult ==
    (ServedExecute /\ response.request.handler = "completes")
    => /\ response.status = 200
       /\ response.media = "json"
       /\ response.keys = {"workflow_id", "status", "step_results", "payload"}

\* such a request is answered 500 by both adapters, and no trigger has run
C11_Witness ==
    /\ ServedExecute
    /\ response.request.handler = "completes"
    /\ response.status = 500
    /\ triggers = <<>>

\* C12: an execute request whose handler raises ValueError("Test error") is
\* answered 500 with the JSON object {"detail": "Test error"}
C12_HandlerErrorIsDetail ==
    (ServedExecute /\ response.request.handler = "raises")
    => /\ response.status = 500
       /\ response.media = "json"
       /\ response.keys = {"detail"}
       /\ response.detail = "Test error"

\* the 500 of the Flask adapter carries the message of the serialisation error
C12_Witness ==
    /\ ServedExecute
    /\ response.request.handler = "raises"
    /\ response.adapter = "flask"
    /\ response.status = 500
    /\ response.detail = "Object of type coroutine is not JSON serializable"

\* the step answers an execute request
ExecuteAnswered == response' # response /\ response'.request.method = "POST"

\* the answer is 404 {"detail": "Workflow '<id>' not found"}, and no handler
\* was invoked, no step run and no workflow changed
NotFoundAnswer ==
    /\ response'.status = 404
    /\ response'.media = "json"
    /\ response'.keys = {"detail"}
    /\ response'.detail = "Workflow '" \o response'.request.workflow_id \o "' not found"
    /\ UNCHANGED <<objects, registry, triggers, stepCalls, served>>

\* C13 as stated: every execute request for an id that is not served is
\* answered 404 with detail "Workflow '<id>' not found", whatever its body
C13_UnservedExecuteAnyBody ==
    [][(ExecuteAnswered /\ response'.request.workflow_id \notin DOMAIN served.map)
       => NotFoundAnswer]_vars

\* C13: an execute request for an id that is not served is answered 404 with
\* detail "Workflow '<id>' not found" and changes nothing, by Flask whatever
\* the body and by FastAPI when the body is a valid TriggerPayload
C13_UnservedExecuteIs404 ==
    [][(/\ ExecuteAnswered
        /\ response'.request.workflow_id \notin DOMAIN served.map
        /\ response'.adapter = "fastapi" => response'.request.body = "valid")
       => NotFoundAnswer]_vars

\* Flask has answered 404 to an execute request with an empty body for an id
\* that is not served, while a trigger of another workflow is running
C13_Witness ==
    /\ response.request.method = "POST"
    /\ response.adapter = "flask"
    /\ response.request.body = "empty"
    /\ response.request.workflow_id \notin DOMAIN served.map
    /\ response.status = 404
    /\ \E t \in 1..Len(triggers) : triggers[t].pc = "running"

\* the last answer is an error response
IsError == response.status >= 400

GetAnswered(action) ==
    response.request.method = "GET" /\ response.request.action = action

\* the handler of the workflow served under an id
ServedHandler(workflow_id) == objects[served.map[workflow_id]].handler

\* what action=code answers for a served id: the text inspect.getsource gives
\* for the handler, and the placeholder when it gives none
CodeOf(workflow_id) ==
    IF ServedHandler(workflow_id) \in {"h1", "h3", "h4"}
    THEN [kind |-> "source", of |-> ServedHandler(workflow_id)]
    ELSE [kind |-> "placeholder", of |-> workflow_id]

\* C15: action=code is answered 400 "workflow_id is required for this action"
\* when workflow_id is missing or empty, also when nothing is served, 404
\* "Workflow '<id>' not found" when the id is not served, and 200 with the
\* one member code when it is, by both adapters
C15_CodeAction ==
    GetAnswered("code")
    => LET id == response.request.workflow_id
       IN IF id \in {"absent", ""}
          THEN /\ response.status = 400
               /\ response.media = "json"
               /\ response.detail = "workflow_id is required for this action"
          ELSE IF id \notin DOMAIN served.map
          THEN /\ response.status = 404
               /\ response.media = "json"
               /\ response.detail = "Workflow '" \o id \o "' not found"
          ELSE /\ response.status = 200
               /\ response.media = "json"
               /\ response.keys = {"code"}
               /\ response.code = CodeOf(id)

\* an empty workflow_id is answered 400 while no workflow is served
C15_Witness ==
    /\ GetAnswered("code")
    /\ response.request.workflow_id = ""
    /\ served.up /\ DOMAIN served.map = {}
    /\ response.status = 400

\* the step calls count_steps_in_workflow finds in the source of a handler:
\* two in h1, two in h4 (in_app and email), none where the source cannot be
\* read or parsed
StepCallsIn(handler) == IF handler \in {"h1", "h4"} THEN 2 ELSE 0

RECURSIVE StepCallsOfServed(_)
\* the sum of StepCallsIn over the workflows served under a set of ids
StepCallsOfServed(ids) ==
    IF ids = {} THEN 0
    ELSE LET id == CHOOSE x \in ids : TRUE
         IN StepCallsIn(ServedHandler(id)) + StepCallsOfServed(ids \ {id})

Unextractable(handler) == handler \in {"h2", "h3"}

\* the entry of discover and the answer of code for a served workflow whose
\* source cannot be extracted, given the code they are to carry
SwallowedAs(code(_)) ==
    /\ GetAnswered("discover")
       => /\ response.status = 200
          /\ \A i \in 1..Len(response.list) :
                Unextractable(ServedHandler(response.list[i].workflowId))
                => /\ response.list[i].steps = <<>>
                   /\ response.list[i].code = code(response.list[i].workflowId)
    /\ (/\ GetAnswered("code")
        /\ response.request.workflow_id \in DOMAIN served.map
        /\ Unextractable(ServedHandler(response.request.workflow_id)))
       => /\ response.status = 200
          /\ response.code = code(response.request.workflow_id)
    /\ GetAnswered("health-check")
       => /\ response.status = 200
          /\ response.steps
             = 2 * Cardinality({id \in DOMAIN served.map : ~Unextractable(ServedHandler(id))})

\* the placeholder "# Workflow <id>" with an empty handler definition
Placeholder(workflow_id) == [kind |-> "placeholder", of |-> workflow_id]

\* C17 as stated: a workflow whose source cannot be read or parsed counts 0
\* steps, is listed with no steps and the placeholder code, and has the
\* placeholder as its code, all with status 200
C17_PlaceholderWhenUnextractable == SwallowedAs(Placeholder)

\* C17: a workflow whose source cannot be read or parsed counts 0 steps and is
\* listed with no steps, all with status 200; its code, in discover and in
\* code, is the placeholder when the source cannot be read and the source
\* text when it is read and cannot be parsed
C17_FailuresSwallowed == SwallowedAs(CodeOf)

\* discover lists a workflow with no steps and the source text as its code
C17_Witness ==
    /\ GetAnswered("discover")
    /\ \E i \in 1..Len(response.list) :
          /\ ServedHandler(response.list[i].workflowId) = "h3"
          /\ response.list[i].steps = <<>>
          /\ response.list[i].code.kind = "source"

\* the step answers a GET request
GetStep == response' # response /\ response'.request.method = "GET"

\* C18: a GET changes no workflow, trigger or served map, and whatever
\* triggers and step calls run afterwards, the answer last given to a GET is
\* the answer the same adapter gives to the same request now
C18_GetIsReadOnlyAndRepeatable ==
    [][/\ GetStep => UNCHANGED <<objects, registry, triggers, stepCalls, served>>
       /\ response'.request.method = "GET"
          => response' = (handle_get_action(response.adapter, response.request))']_vars

\* health-check was answered with the two steps of the source of h1, and a
\* trigger of the served workflow has recorded a step in Workflow.steps
C18_Witness ==
    /\ GetAnswered("health-check")
    /\ response.steps = 2
    /\ "w1" \in DOMAIN served.map
    /\ objects[served.map["w1"]].steps # <<>>
    /\ \E t \in 1..Len(triggers) : triggers[t].pc # "running"

\* the status and the body of an answer
StatusAndBody(r) == [r EXCEPT !.adapter = "any"]

\* C19: for the same served workflows and the same GET request (health-check,
\* discover, or code with a served workflow_id) the Flask adapter and the
\* FastAPI adapter answer with the same status and the same JSON body
C19_AdaptersAgree ==
    (/\ served.up
     /\ response.request.method = "GET"
     /\ \/ response.request.action \in {"health-check", "discover"}
        \/ /\ response.request.action = "code"
           /\ response.request.workflow_id \in DOMAIN served.map)
    => StatusAndBody(handle_get_action("flask", response.request))
       = StatusAndBody(handle_get_action("fastapi", response.request))

\* Flask has answered discover with a step whose code is not the code FastAPI
\* gives for it
C19_Witness ==
    /\ GetAnswered("discover")
    /\ response.adapter = "flask"
    /\ \E i \in 1..Len(response.list) :
          /\ response.list[i].steps # <<>>
          /\ response.list[i].steps[1].code = "step.in_app('step-1', () => {}"
          /\ response.list[i].steps[1].code # step_code("fastapi", "in_app", "step-1")

---------------------------------------------------------------------------
(* Properties of the decorator, checked under DecoratorSpec *)

\* the schema the priority gives for an explicit payload_schema (NoSchema when
\* none is passed) and the parameters of the function
PrioritySchema(passed, parameters) ==
    IF passed # NoSchema THEN passed
    ELSE IF \E i \in 1..Len(parameters) :
               parameters[i].name = "payload" /\ parameters[i].annotation \in {"NameSchema", "ExtraSchema"}
    THEN LET i == CHOOSE i \in 1..Len(parameters) :
                     /\ parameters[i].name = "payload"
                     /\ parameters[i].annotation \in {"NameSchema", "ExtraSchema"}
         IN IF parameters[i].annotation = "NameSchema" THEN NameSchema ELSE ExtraSchema
    ELSE IF \E i \in 1..Len(parameters) : parameters[i].annotation \in {"NameSchema", "ExtraSchema"}
    THEN LET i == CHOOSE i \in 1..Len(parameters) :
                     /\ parameters[i].annotation \in {"NameSchema", "ExtraSchema"}
                     /\ \A j \in 1..(i - 1) :
                           parameters[j].annotation \notin {"NameSchema", "ExtraSchema"}
         IN IF parameters[i].annotation = "NameSchema" THEN NameSchema ELSE ExtraSchema
    ELSE NoSchema

\* C20: the workflow a decorator registers for a function has the payload
\* schema the priority gives (the payload_schema passed to workflow(...), else
\* the BaseModel annotation of the parameter named payload, else the first
\* BaseModel annotation, else none) and the given name, or the workflow id
\* when no name is given
C20_SchemaByPriority ==
    [][\A d \in 1..Len(decorators), f \in Functions :
          (ApplyDecorator(d, f, DecoratorWorkflows) /\ last'.raised = "none")
          => /\ Len(objects') = Len(objects) + 1
             /\ registry'[decorators[d].workflow_id] = Len(objects')
             /\ objects'[Len(objects')].handler = f.name
             /\ objects'[Len(objects')].payload_schema
                = PrioritySchema(decorators[d].passed, f.parameters)
             /\ objects'[Len(objects')].name
                = IF decorators[d].name = "None" THEN decorators[d].workflow_id
                  ELSE decorators[d].name]_vars

\* the registered workflow of a function with no BaseModel annotation, made
\* by a decorator that was passed no payload_schema, has the schema NameSchema
C20_Witness ==
    /\ "w1" \in DOMAIN registry
    /\ objects[registry["w1"]].handler = "f_untyped"
    /\ objects[registry["w1"]].payload_schema = NameSchema
    /\ \E d \in 1..Len(decorators) :
          decorators[d].workflow_id = "w1" /\ decorators[d].passed = NoSchema

---------------------------------------------------------------------------
(* Properties of the skip option, checked under StepSpec *)

\* C21: a step called with skip=True does not invoke its resolver, returns
\* the skipped marker and stores it under its id; with skip=False the step does
\* what the same step without a skip option does and records the resolver's
\* result
C21_SkipBoolean ==
    \A t \in 1..Len(triggers) : \A k \in 1..Len(triggers[t].calls) :
       LET c == triggers[t].calls[k]
           plain == execute_step(StepHandler({}, None), <<>>,
                                 [c.call EXCEPT !.skip = "absent"])
       IN /\ c.call.skip = "True" =>
               /\ c.tried = <<>>
               /\ c.raised = "none" /\ c.result = "skipped"
               /\ c.call.step_id \in DOMAIN ResultsAfter(t, k)
               /\ ResultsAfter(t, k)[c.call.step_id] = "skipped"
          /\ c.call.skip = "False" =>
               /\ c.tried = plain.tried /\ c.raised = plain.raised
               /\ c.result = plain.result
               /\ c.raised = "none" => ResultsAfter(t, k)[c.call.step_id] = c.result

\* a step called with skip=True has invoked its resolver and recorded the
\* resolver's result, and the trigger has returned it
C21_Witness ==
    \E t \in 1..Len(triggers) :
       /\ triggers[t].pc = "returned"
       /\ Len(triggers[t].calls) = 1
       /\ triggers[t].calls[1].call.skip = "True"
       /\ triggers[t].calls[1].skip_calls = 0
       /\ triggers[t].calls[1].tried # <<>>
       /\ triggers[t].calls[1].result # "skipped"
       /\ triggers[t].result.step_results[triggers[t].calls[1].call.step_id]
          = triggers[t].calls[1].result

\* C22: a skip predicate that accepts only the payload is called three times
\* (with the controls, with no argument, with the payload) and, returning true
\* for the payload, makes the step skipped: the resolver is not invoked and the
\* skipped marker is returned and stored
C22_SkipFallbackChain ==
    \A t \in 1..Len(triggers) : \A k \in 1..Len(triggers[t].calls) :
       LET c == triggers[t].calls[k]
       IN c.call.skip = "fn_payload" =>
             /\ c.skip_calls = 3
             /\ c.tried = <<>>
             /\ c.raised = "none" /\ c.result = "skipped"
             /\ ResultsAfter(t, k)[c.call.step_id] = "skipped"

\* the predicate was called once, with no argument, and its TypeError has left
\* the step call and the trigger with nothing recorded
C22_Witness ==
    \E t \in 1..Len(triggers) :
       /\ triggers[t].pc = "raised"
       /\ triggers[t].raised = "TypeError"
       /\ Len(triggers[t].calls) = 1
       /\ triggers[t].calls[1].call.skip = "fn_payload"
       /\ triggers[t].calls[1].skip_calls = 1
       /\ triggers[t].calls[1].tried = <<>>
       /\ triggers[t].step_handler.step_results = EmptyDict

---------------------------------------------------------------------------
(* The argument of a resolver when no controls are given, checked under *)
(* StepSpec                                                             *)

\* logged step call c was made with no controls or with empty controls, its
\* resolver takes a controls argument, and the resolver was invoked
NoControlsForResolver(c) ==
    /\ c.call.controls \in {"absent", "empty"}
    /\ c.call.resolver.kind = "callable"
    /\ c.call.resolver.on["controls"] = "return"
    /\ c.tried # <<>>

\* the keys of the trigger payload that the resolver of step call k of trigger
\* t can read through its argument: those of the payload when a call was made
\* with the payload, none otherwise
PayloadRead(t, k) ==
    IF \E i \in 1..Len(triggers[t].calls[k].tried) : triggers[t].calls[k].tried[i] = "payload"
    THEN triggers[t].step_handler.payload
    ELSE {}

---------------------------------------------------------------------------
(* Awaited step calls, checked under AsyncSpec *)

\* C24: a trigger whose handler has awaited step calls that returned goes on:
\* it is not failed by the await, and when its handler returns it completes
\* with status "completed" and, under each step id, the value of the last
\* step call with that id
C24_AwaitedStepsComplete ==
    \A t \in 1..Len(triggers) :
       (/\ triggers[t].awaited > 0
        /\ \A k \in 1..Len(triggers[t].calls) : triggers[t].calls[k].raised = "none")
       => /\ triggers[t].pc \in {"running", "returned"}
          /\ triggers[t].pc = "returned"
             => /\ triggers[t].result.status = "completed"
                /\ triggers[t].result.step_results = triggers[t].step_handler.step_results

\* the handler awaited a step call that returned: the resolver's result is
\* stored under the step's id and the trigger has raised TypeError
C24_Witness ==
    \E t \in 1..Len(triggers) :
       /\ triggers[t].awaited = 1
       /\ triggers[t].pc = "raised"
       /\ triggers[t].raised = "TypeError"
       /\ Len(triggers[t].calls) = 1
       /\ triggers[t].calls[1].raised = "none"
       /\ triggers[t].calls[1].tried = <<"noargs">>
       /\ triggers[t].step_handler.step_results
          = [id \in {triggers[t].calls[1].call.step_id} |-> "ret_noargs"]
       /\ triggers[t].result = None

---------------------------------------------------------------------------
(* The steps discover lists, checked under HttpSpec *)

\* the method names extract_workflow_steps lists
ListedMethods == {"in_app", "email", "sms", "push", "chat"}

\* the listed method names a handler's source calls, in the order of the text
ListedInSourceOrder(handler) ==
    LET calls == HandlerSource(handler).calls
    IN SelectSeq([i \in 1..Len(calls) |-> calls[i].attr], LAMBDA a : a \in ListedMethods)

\* C25: discover lists, for a workflow whose source is read and parsed, one
\* entry per call step.<in_app|email|sms|push|chat>(...) of the source and
\* none for another method name, in the order of the source, the k-th entry
\* with id "step-k", the method name as type and [type] as providers
C25_StepsInSourceOrder ==
    GetAnswered("discover")
    => \A i \in 1..Len(response.list) :
          LET handler == ServedHandler(response.list[i].workflowId)
              steps == response.list[i].steps
          IN ~Unextractable(handler)
             => /\ Len(steps) = Len(ListedInSourceOrder(handler))
                /\ \A k \in 1..Len(steps) :
                      /\ steps[k].stepId = "step-" \o ToString(k)
                      /\ steps[k].type = ListedInSourceOrder(handler)[k]
                      /\ steps[k].providers = <<steps[k].type>>

\* discover has listed the steps of h4: three entries, none for digest, and
\* the in_app call, the first of the source, as the third, "step-3"
C25_Witness ==
    /\ GetAnswered("discover")
    /\ \E i \in 1..Len(response.list) :
          /\ ServedHandler(response.list[i].workflowId) = "h4"
          /\ ListedInSourceOrder("h4") = <<"in_app", "email", "chat">>
          /\ Len(response.list[i].steps) = 3
          /\ response.list[i].steps[1].type = "email"
          /\ response.list[i].steps[2].type = "chat"
          /\ response.list[i].steps[3].type = "in_app"
          /\ response.list[i].steps[3].stepId = "step-3"

\* C27: the steps health-check reports are as many as the step entries
\* discover lists for the workflows served
C27_HealthCountsDiscoveredSteps ==
    served.up
    => handle_health_check("fastapi", GetRequest("health-check", "absent")).steps
       = LET list == handle_discover("fastapi", GetRequest("discover", "absent")).list
             RECURSIVE Total(_)
             Total(k) == IF k = 0 THEN 0 ELSE Len(list[k].steps) + Total(k - 1)
         IN Total(Len(list))

\* health-check has reported two steps for the one workflow served, for which
\* discover lists three
C27_Witness ==
    /\ GetAnswered("health-check")
    /\ DOMAIN served.map = {"w2"}
    /\ ServedHandler("w2") = "h4"
    /\ response.steps = 2
    /\ Len(handle_discover(response.adapter, GetRequest("discover", "absent")).list[1].steps) = 3

---------------------------------------------------------------------------
(* Exceptions raised while a GET is served, checked under FaultSpec *)

\* the last request answered was a GET during which an exception was raised
GetRaised == response.request.method = "GET" /\ response.request.handler \in ExceptionClasses

\* C26: a GET during which an exception is raised is answered with status 500
\* and a body that has a detail member, whatever the class of the exception,
\* by both adapters
C26_UnhandledIs500 ==
    GetRaised
    => /\ response.status = 500
       /\ response.media = "json"
       /\ "detail" \in response.keys

\* a health-check during which ValueError was raised is answered 400 with the
\* message of the exception as detail, by FastAPI
C26_Witness ==
    /\ GetRaised
    /\ response.adapter = "fastapi"
    /\ response.request.action = "health-check"
    /\ response.request.handler = "ValueError"
    /\ response.status = 400
    /\ response.detail = "Test error"

---------------------------------------------------------------------------
(* What a step call records, checked under TriggerSpec *)

\* C28: a step call that returns leaves step_results with one entry under its
\* step id, the outcome of this call (the resolver's result, or the skipped
\* marker) in place of any earlier one, and the other entries as they were;
\* an executed call appends its id to executed_steps, a skipped call leaves
\* executed_steps and the steps of the workflow as they were
C28_StepOutcomesRecorded ==
    [][\A t \in 1..Len(triggers) :
          Len(triggers'[t].calls) = Len(triggers[t].calls) + 1
          => LET c == triggers'[t].calls[Len(triggers'[t].calls)]
                 id == c.call.step_id
                 before == triggers[t].step_handler
                 after == triggers'[t].step_handler
             IN c.raised = "none"
                => /\ DOMAIN after.step_results = DOMAIN before.step_results \cup {id}
                   /\ after.step_results[id] = c.result
                   /\ \A x \in DOMAIN before.step_results \ {id} :
                         after.step_results[x] = before.step_results[x]
                   /\ IF c.result = "skipped"
                      THEN /\ after.executed_steps = before.executed_steps
                           /\ objects'[triggers[t].wf].steps = objects[triggers[t].wf].steps
                      ELSE after.executed_steps = Append(before.executed_steps, id)]_vars

\* two calls with one step id, the first executed and the second skipped:
\* the one entry of step_results is the skipped marker, executed_steps and
\* the steps of the workflow have the one entry of the first call
C28_Witness ==
    \E t \in 1..Len(triggers) :
       /\ Len(triggers[t].calls) = 2
       /\ triggers[t].calls[1].call.step_id = triggers[t].calls[2].call.step_id
       /\ triggers[t].calls[1].result = "ret_noargs"
       /\ triggers[t].calls[2].result = "skipped"
       /\ triggers[t].step_handler.step_results
          = [id \in {triggers[t].calls[1].call.step_id} |-> "skipped"]
       /\ triggers[t].step_handler.executed_steps = <<triggers[t].calls[1].call.step_id>>
       /\ Len(objects[triggers[t].wf].steps) = 1

---------------------------------------------------------------------------
(* The steps list of a workflow under interleaved triggers, checked under *)
(* RaceSpec *)

\* C29: the steps of a workflow never hold two entries with one step_id,
\* however the triggers interleave between the test and the append of
\* _execute_step
C29_NoDuplicateSteps ==
    \A o \in 1..Len(objects) :
       \A i, j \in 1..Len(objects[o].steps) :
          objects[o].steps[i].step_id = objects[o].steps[j].step_id => i = j

\* two triggers of one workflow have each made one step call with the same
\* step id, both calls have returned, and the steps of the workflow hold two
\* entries with that id
C29_Witness ==
    \E t, u \in 1..Len(triggers) :
       /\ t # u
       /\ triggers[t].wf = triggers[u].wf
       /\ Len(triggers[t].calls) = 1 /\ Len(triggers[u].calls) = 1
       /\ triggers[t].calls[1].call.step_id = triggers[u].calls[1].call.step_id
       /\ triggers[t].pending = <<>> /\ triggers[u].pending = <<>>
       /\ Len(objects[triggers[t].wf].steps) = 2
       /\ objects[triggers[t].wf].steps[1].step_id = objects[triggers[t].wf].steps[2].step_id

---------------------------------------------------------------------------
(* The workflows an adapter serves, checked under AppSpec *)

\* the ids a discover response lists
ListedIds(r) == {r.list[i].workflowId : i \in 1..Len(r.list)}

\* C30: once serve() has built its map, no step changes the workflows served
\* under each id, whatever is registered or cleared afterwards, and every
\* request is answered from that map: health-check counts its ids, discover
\* lists its ids, code and execute answer 404 exactly for the ids it lacks
C30_ServedSetIsFixed ==
    [][/\ served.up => served' = served
       /\ response' # response
          => LET r == response'
                 ids == DOMAIN served'.map
             IN /\ r.request.action \in {"absent", "health-check"}
                   => r.workflows = Cardinality(ids)
                /\ r.request.action = "discover" => ListedIds(r) = ids
                /\ r.request.action \in {"code", "execute"}
                   => (r.status = 404 <=> r.request.workflow_id \notin ids)]_vars

\* discover has listed the one workflow served, w1, after the registry was
\* cleared and another workflow registered under w2
C30_Witness ==
    /\ GetAnswered("discover")
    /\ ListedIds(response) = {"w1"}
    /\ DOMAIN served.map = {"w1"}
    /\ DOMAIN registry = {"w2"}

====
